---------------------------- MODULE Spec2Model ----------------------------
(***************************************************************************)
(* A model of the Google Maps review scraper (src/google_maps_scraper.py): *)
(* the loading loop scroll_reviews, the expansion procedure                *)
(* click_more_buttons, the extractor extract_reviews, the driver           *)
(* scrape_reviews and the Arabic normalizer normalize_arabic_text.         *)
(*                                                                         *)
(* Texts are sequences of Unicode code points.  The browser and the text   *)
(* services are outside the program: what a call to them returns, and      *)
(* whether it raises, is chosen nondeterministically in the action that    *)
(* makes the call.                                                         *)
(***************************************************************************)
EXTENDS Integers, Sequences, FiniteSets, TLC

VARIABLES
    pc,               \* position of the control thread
    driver,           \* self.driver is set (setup_driver succeeded)
    target_count,     \* num_reviews / target_count / max_reviews
    attempt,          \* scroll_reviews: attempt
    last_count,       \* scroll_reviews: last_count
    no_change_count,  \* scroll_reviews: no_change_count
    current_count,    \* scroll_reviews: current_count
    passes,           \* passes of the while loop begun so far
    expansions,       \* calls of click_more_buttons made by scroll_reviews
    passTrace,        \* what the current pass has done so far, in order
    outcome,          \* how the while loop of scroll_reviews was left
    increased,        \* some pass counted more reviews than the pass before
    changed,          \* some pass counted other than the pass before
    milestones,       \* final expansion, extraction, normalization, in order
    result,           \* what scrape_reviews returned ("none" while running)
    reviews,          \* extract_reviews: reviews, then the list scrape_reviews holds
    seen_reviews,     \* extract_reviews: seen_reviews
    containers,       \* extract_reviews: len(review_containers)
    idx,              \* extract_reviews: containers visited so far
    observed,         \* extract_reviews: review_data of the containers visited
    attempt_num,      \* click_more_buttons: attempt_num (attempts completed)
    attempts_without_new_clicks,      \* click_more_buttons
    total_clicked_count,              \* click_more_buttons
    found_and_clicked_in_iteration,   \* click_more_buttons
    current_iteration_clicks,         \* click_more_buttons
    selector,         \* index into more_buttons_selectors of the next selector
    visible,          \* document: visible and enabled 'More' controls
    pending,          \* document: 'More' controls not rendered yet
    attemptsMade,     \* attempts of click_more_buttons begun in this call
    zeroRun,          \* most recent attempts in a row without an activation
    zeroTotal,        \* attempts without an activation in this call
    sawVisible,       \* a find of this call returned a visible, enabled control
    acted,            \* this call scrolled to or clicked some control
    stopped,          \* how the loop of click_more_buttons was left
    buttons_to_click, \* click_more_buttons: what the last find returned
    examined,         \* elements of buttons_to_click the loop came to
    services,         \* CAMEL_AVAILABLE, TEXTBLOB_AVAILABLE, LANGDETECT_AVAILABLE
    input_text,       \* the text a text operation was called with
    output_text,      \* the text it returned
    failed_stage,     \* the stage of the normalizer that raised (0: none)
    again_text,       \* what the normalizer returned when called with output_text
    again_stage,      \* the stage that raised in that second call (0: none)
    candidate,        \* str(TextBlob(text).correct()): the spelling candidate
    label,            \* what detect_language returned
    display_label,    \* what detect_review_language returned
    raised,           \* the service called by the text operation raised
    waited,           \* scrape_reviews: how the wait for the review nodes ended
    sort_called,      \* scrape_reviews: sort_by_newest was called
    behaviour,        \* what the services do in the calls of a text operation
    heap,             \* the review dictionaries, by identity
    given,            \* preprocess_reviews: the list reviews it was called with
    processed_reviews,\* preprocess_reviews: the list it returned
    all_reviews,      \* what process_reviews_function returned for that list
    prev_count,       \* the count observed on the pass before (0 at first)
    same_run          \* latest passes in a row that observed the count before

scrollVars == <<target_count, attempt, last_count, no_change_count,
                current_count, passes, expansions, passTrace, outcome,
                increased, changed, prev_count, same_run>>

extractVars == <<reviews, seen_reviews, containers, idx, observed>>

expandVars == <<attempt_num, attempts_without_new_clicks, total_clicked_count,
                found_and_clicked_in_iteration, current_iteration_clicks,
                selector, visible, pending, attemptsMade, zeroRun, zeroTotal,
                sawVisible, acted, stopped, buttons_to_click, examined>>

textVars == <<services, input_text, output_text, failed_stage, again_text,
              again_stage, candidate, label, display_label, raised>>

runVars == <<waited, sort_called>>

pipeVars == <<behaviour, heap, given, processed_reviews, all_reviews>>

vars == <<pc, driver, scrollVars, milestones, result, extractVars, expandVars,
          textVars, runVars, pipeVars>>

-----------------------------------------------------------------------------
(* Bounds of the model *)

MaxTarget == 3

MaxCount == 3

MaxNodes == 2

MaxControls == 3

MaxButtons == 2

MaxTextLen == 3

(* Program constants *)

max_attempts == 15

EscalateAt == 3

(* The stagnation threshold out of reach of the 15 passes *)
StagnateNever == 6 + 10

StagnateAt == 6

TargetCounts == 0..MaxTarget

Counts == 0..MaxCount

-----------------------------------------------------------------------------
(* Texts: sequences of code points *)

(* 'N/A', the default of every field of a record *)
NA == <<78, 47, 65>>

(* ' stars' *)
StarsSuffix == <<32, 115, 116, 97, 114, 115>>

IsSpace(c) == c \in {9, 10, 11, 12, 13, 32}

(* \d of the re module on str: the ASCII and the Arabic-Indic digits *)
IsDigit(c) == c \in 48..57 \/ c \in 1632..1641

RECURSIVE LStrip(_)
LStrip(s) ==
    IF s # <<>> /\ IsSpace(Head(s)) THEN LStrip(Tail(s)) ELSE s

RECURSIVE RStrip(_)
RStrip(s) ==
    IF s # <<>> /\ IsSpace(s[Len(s)])
      THEN RStrip(SubSeq(s, 1, Len(s) - 1))
      ELSE s

RECURSIVE SeqsUpTo(_, _)
SeqsUpTo(S, n) ==
    IF n = 0 THEN {<<>>}
    ELSE LET shorter == SeqsUpTo(S, n - 1)
         IN  shorter \cup {Append(q, x) : q \in shorter, x \in S}

RECURSIVE CountIn(_, _)
CountIn(q, S) ==
    IF q = <<>> THEN 0
    ELSE (IF Head(q) \in S THEN 1 ELSE 0) + CountIn(Tail(q), S)

(* str.strip() *)
Strip(s) == RStrip(LStrip(s))

RECURSIVE TakeDigits(_)
TakeDigits(s) ==
    IF s # <<>> /\ IsDigit(Head(s))
      THEN <<Head(s)>> \o TakeDigits(Tail(s))
      ELSE <<>>

(* re.search(r'(\d+)', s).group(1); <<>> when there is no match *)
RECURSIVE FirstInt(_)
FirstInt(s) ==
    IF s = <<>> THEN <<>>
    ELSE IF IsDigit(Head(s)) THEN TakeDigits(s)
    ELSE FirstInt(Tail(s))

-----------------------------------------------------------------------------
(* scrape_reviews: the steps before the loading loop *)

ScrollFresh ==
    /\ attempt = 0
    /\ last_count = 0
    /\ no_change_count = 0
    /\ current_count = 0
    /\ passes = 0
    /\ expansions = 0
    /\ passTrace = <<>>
    /\ outcome = "running"
    /\ increased = FALSE
    /\ changed = FALSE
    /\ prev_count = 0
    /\ same_run = 0

ExtractFresh ==
    /\ reviews = <<>>
    /\ seen_reviews = {}
    /\ containers = 0
    /\ idx = 0
    /\ observed = <<>>

ExpandFresh ==
    /\ attempt_num = 0
    /\ attempts_without_new_clicks = 0
    /\ total_clicked_count = 0
    /\ found_and_clicked_in_iteration = FALSE
    /\ current_iteration_clicks = 0
    /\ selector = 1
    /\ attemptsMade = 0
    /\ zeroRun = 0
    /\ zeroTotal = 0
    /\ sawVisible = FALSE
    /\ acted = FALSE
    /\ stopped = "running"
    /\ buttons_to_click = <<>>
    /\ examined = 0

(* The optional imports at the head of the module: each succeeds or not *)
Services == [camel : BOOLEAN, textblob : BOOLEAN, langdetect : BOOLEAN]

AllAvailable == [camel |-> TRUE, textblob |-> TRUE, langdetect |-> TRUE]

TextFresh ==
    /\ services = AllAvailable
    /\ input_text = <<>>
    /\ output_text = <<>>
    /\ failed_stage = 0
    /\ again_text = <<>>
    /\ again_stage = 0
    /\ candidate = <<>>
    /\ label = "none"
    /\ display_label = "none"
    /\ raised = FALSE

(* A scraper is constructed (setup_driver may have failed) and            *)
(* scrape_reviews(url, num_reviews) is called.                            *)
(* No call of preprocess_reviews has been made *)
ListsFresh ==
    /\ heap = <<>>
    /\ given = <<>>
    /\ processed_reviews = <<>>
    /\ all_reviews = <<>>

(* No behaviour of the services is fixed either *)
PipeFresh ==
    /\ behaviour = [failAt |-> 0, lang |-> "raise", corrector |-> "same"]
    /\ ListsFresh

Init ==
    /\ pc = "start"
    /\ driver \in BOOLEAN
    /\ target_count \in TargetCounts
    /\ ScrollFresh
    /\ milestones = <<>>
    /\ result = "none"
    /\ ExtractFresh
    /\ ExpandFresh
    /\ visible = 0
    /\ pending = 0
    /\ TextFresh
    /\ PipeFresh
    /\ waited = "no"
    /\ sort_called = FALSE

(* The exception leaves scrape_reviews *)
RaiseToCaller ==
    /\ pc' = "done"
    /\ result' = "exception"

(* The except clause of scrape_reviews, and its early returns: [] *)
ReturnEmpty ==
    /\ pc' = "done"
    /\ result' = "empty"

(* if not self.driver: return [] *)
Start ==
    /\ pc = "start"
    /\ IF driver
         THEN pc' = "get" /\ UNCHANGED result
         ELSE ReturnEmpty
    /\ UNCHANGED <<extractVars, expandVars, textVars>>
    /\ UNCHANGED <<driver, scrollVars, milestones>>
    /\ UNCHANGED runVars
    /\ UNCHANGED pipeVars

(* self.driver.get(english_url); a failure is caught by the outer except *)
Get ==
    /\ pc = "get"
    /\ \E ok \in BOOLEAN :
         IF ok THEN pc' = "wait" /\ UNCHANGED result
               ELSE ReturnEmpty
    /\ UNCHANGED <<extractVars, expandVars, textVars>>
    /\ UNCHANGED <<driver, scrollVars, milestones>>
    /\ UNCHANGED runVars
    /\ UNCHANGED pipeVars

(* The wait whose TimeoutException is logged and passed over *)
WaitIgnoresTimeout ==
    /\ pc = "wait"
    /\ \E r \in {"present", "timeout", "error"} :
         /\ waited' = r
         /\ IF r \in {"present", "timeout"} THEN pc' = "sort" /\ UNCHANGED result
                                            ELSE ReturnEmpty
    /\ UNCHANGED <<extractVars, expandVars, textVars, sort_called>>
    /\ UNCHANGED <<driver, scrollVars, milestones>>
    /\ UNCHANGED pipeVars

(* WebDriverWait(...).until(presence of div[data-review-id]) *)
Wait ==
    /\ pc = "wait"
    /\ \E r \in {"present", "timeout", "error"} :
         /\ waited' = r
         /\ IF r = "present" THEN pc' = "sort" /\ UNCHANGED result
                             ELSE ReturnEmpty
    /\ UNCHANGED <<extractVars, expandVars, textVars, sort_called>>
    /\ UNCHANGED <<driver, scrollVars, milestones>>
    /\ UNCHANGED pipeVars

(* sort_by_newest() catches every exception and returns True or False *)
Sort ==
    /\ pc = "sort"
    /\ \E sorted \in BOOLEAN : pc' = "loop"
    /\ sort_called' = TRUE
    /\ UNCHANGED <<extractVars, expandVars, textVars, waited>>
    /\ UNCHANGED <<driver, scrollVars, milestones, result>>
    /\ UNCHANGED pipeVars

-----------------------------------------------------------------------------
(* scroll_reviews *)

Log(e) == passTrace' = Append(passTrace, e)

(* An exception that leaves scroll_reviews is caught by the except clause  *)
(* of scrape_reviews, which returns [].                                    *)
ScrollRaises ==
    /\ outcome' = "raised"
    /\ ReturnEmpty

(* while attempt < max_attempts *)
ScrollLoop ==
    /\ pc = "loop"
    /\ IF attempt < max_attempts
         THEN /\ pc' = "expand"
              /\ passes' = passes + 1
              /\ passTrace' = <<>>
              /\ UNCHANGED outcome
         ELSE /\ pc' = "final_expand"
              /\ outcome' = "cap"
              /\ UNCHANGED <<passes, passTrace>>
    /\ UNCHANGED <<extractVars, expandVars, textVars, increased, changed,
                   prev_count, same_run>>
    /\ UNCHANGED <<driver, target_count, attempt, last_count, no_change_count,
                   current_count, expansions, milestones, result>>
    /\ UNCHANGED runVars
    /\ UNCHANGED pipeVars

(* self.click_more_buttons() at the head of a pass.  click_more_buttons   *)
(* catches every exception; its own loop is the specification SpecExpand. *)
ScrollExpand ==
    /\ pc = "expand"
    /\ expansions' = expansions + 1
    /\ Log("expand")
    /\ pc' = "count"
    /\ UNCHANGED <<extractVars, expandVars, textVars, increased, changed,
                   prev_count, same_run>>
    /\ UNCHANGED <<driver, target_count, attempt, last_count, no_change_count,
                   current_count, passes, outcome, milestones, result>>
    /\ UNCHANGED runVars
    /\ UNCHANGED pipeVars

(* current_count = len(find_elements("div[data-review-id]")): the call is *)
(* outside every try block of scroll_reviews.                             *)
ScrollCount ==
    /\ pc = "count"
    /\ \E ok \in BOOLEAN, c \in Counts :
         IF ok
           THEN /\ current_count' = c
                /\ Log("count")
                /\ pc' = "check"
                /\ increased' = (increased \/ (attempt > 0 /\ c > last_count))
                /\ changed' = (changed \/ (attempt > 0 /\ c # last_count))
                /\ prev_count' = c
                /\ same_run' = (IF c = prev_count THEN same_run + 1 ELSE 0)
                /\ UNCHANGED <<outcome, result>>
           ELSE /\ ScrollRaises
                /\ UNCHANGED <<current_count, passTrace, increased, changed,
                   prev_count, same_run>>
    /\ UNCHANGED <<extractVars, expandVars, textVars>>
    /\ UNCHANGED <<driver, target_count, attempt, last_count, no_change_count,
                   passes, expansions, milestones>>
    /\ UNCHANGED runVars
    /\ UNCHANGED pipeVars

(* The target test taken strict *)
TargetExceeded == current_count > target_count

TargetReached == current_count >= target_count

(* if current_count >= target_count: break *)
ScrollCheck ==
    /\ pc = "check"
    /\ IF TargetReached
         THEN pc' = "final_expand" /\ outcome' = "target"
         ELSE pc' = "compare" /\ UNCHANGED outcome
    /\ UNCHANGED <<extractVars, expandVars, textVars, increased, changed,
                   prev_count, same_run>>
    /\ UNCHANGED <<driver, target_count, attempt, last_count, no_change_count,
                   current_count, passes, expansions, passTrace, milestones,
                   result>>
    /\ UNCHANGED runVars
    /\ UNCHANGED pipeVars

(* The comparison without the reset of the streak *)
CompareKeepsStreak ==
    /\ pc = "compare"
    /\ Log("compare")
    /\ IF current_count = last_count
         THEN /\ no_change_count' = no_change_count + 1
              /\ pc' = IF no_change_count + 1 >= EscalateAt THEN "m1" ELSE "scroll"
         ELSE /\ no_change_count' = no_change_count
              /\ pc' = "scroll"
    /\ UNCHANGED <<extractVars, expandVars, textVars, increased, changed,
                   prev_count, same_run>>
    /\ UNCHANGED <<driver, target_count, attempt, last_count, current_count,
                   passes, expansions, outcome, milestones, result>>
    /\ UNCHANGED runVars
    /\ UNCHANGED pipeVars

(* if current_count == last_count: no_change_count += 1 ...               *)
(* else: no_change_count = 0                                              *)
ScrollCompare ==
    /\ pc = "compare"
    /\ Log("compare")
    /\ IF current_count = last_count
         THEN /\ no_change_count' = no_change_count + 1
              /\ pc' = IF no_change_count + 1 >= EscalateAt THEN "m1" ELSE "scroll"
         ELSE /\ no_change_count' = 0
              /\ pc' = "scroll"
    /\ UNCHANGED <<extractVars, expandVars, textVars, increased, changed,
                   prev_count, same_run>>
    /\ UNCHANGED <<driver, target_count, attempt, last_count, current_count,
                   passes, expansions, outcome, milestones, result>>
    /\ UNCHANGED runVars
    /\ UNCHANGED pipeVars

(* Method 1: scroll the parent of the first review node.  A failure jumps *)
(* to the except clause that closes the three methods.                    *)
Escalate1 ==
    /\ pc = "m1"
    /\ Log("m1")
    /\ \E ok \in BOOLEAN : pc' = IF ok THEN "m2" ELSE "stagnate"
    /\ UNCHANGED <<extractVars, expandVars, textVars, increased, changed,
                   prev_count, same_run>>
    /\ UNCHANGED <<driver, target_count, attempt, last_count, no_change_count,
                   current_count, passes, expansions, outcome, milestones,
                   result>>
    /\ UNCHANGED runVars
    /\ UNCHANGED pipeVars

(* Method 2: window.scrollTo(0, document.body.scrollHeight) *)
Escalate2 ==
    /\ pc = "m2"
    /\ Log("m2")
    /\ \E ok \in BOOLEAN : pc' = IF ok THEN "m3" ELSE "stagnate"
    /\ UNCHANGED <<extractVars, expandVars, textVars, increased, changed,
                   prev_count, same_run>>
    /\ UNCHANGED <<driver, target_count, attempt, last_count, no_change_count,
                   current_count, passes, expansions, outcome, milestones,
                   result>>
    /\ UNCHANGED runVars
    /\ UNCHANGED pipeVars

(* Method 3: find the secondary containers and scroll each; a failure of  *)
(* the find is caught by the closing except, a failure of one scroll by   *)
(* the inner except.                                                      *)
Escalate3 ==
    /\ pc = "m3"
    /\ Log("m3")
    /\ \E ok \in BOOLEAN : pc' = "stagnate"
    /\ UNCHANGED <<extractVars, expandVars, textVars, increased, changed,
                   prev_count, same_run>>
    /\ UNCHANGED <<driver, target_count, attempt, last_count, no_change_count,
                   current_count, passes, expansions, outcome, milestones,
                   result>>
    /\ UNCHANGED runVars
    /\ UNCHANGED pipeVars

(* The stagnation exit written as a return instead of a break *)
StagnateReturns ==
    /\ pc = "stagnate"
    /\ IF no_change_count >= 6
         THEN pc' = "extract_find" /\ outcome' = "stagnation"
         ELSE pc' = "scroll" /\ UNCHANGED outcome
    /\ UNCHANGED <<extractVars, expandVars, textVars, increased, changed,
                   prev_count, same_run>>
    /\ UNCHANGED <<driver, target_count, attempt, last_count, no_change_count,
                   current_count, passes, expansions, passTrace, milestones,
                   result>>
    /\ UNCHANGED runVars
    /\ UNCHANGED pipeVars

(* if no_change_count >= 6: break *)
ScrollStagnate ==
    /\ pc = "stagnate"
    /\ IF no_change_count >= StagnateAt
         THEN pc' = "final_expand" /\ outcome' = "stagnation"
         ELSE pc' = "scroll" /\ UNCHANGED outcome
    /\ UNCHANGED <<extractVars, expandVars, textVars, increased, changed,
                   prev_count, same_run>>
    /\ UNCHANGED <<driver, target_count, attempt, last_count, no_change_count,
                   current_count, passes, expansions, passTrace, milestones,
                   result>>
    /\ UNCHANGED runVars
    /\ UNCHANGED pipeVars

(* Standard scroll method; its failure is caught and printed *)
ScrollStandard ==
    /\ pc = "scroll"
    /\ Log("scroll")
    /\ \E ok \in BOOLEAN : pc' = "advance"
    /\ UNCHANGED <<extractVars, expandVars, textVars, increased, changed,
                   prev_count, same_run>>
    /\ UNCHANGED <<driver, target_count, attempt, last_count, no_change_count,
                   current_count, passes, expansions, outcome, milestones,
                   result>>
    /\ UNCHANGED runVars
    /\ UNCHANGED pipeVars

(* The pass ends without attempt += 1 *)
AdvanceWithoutCount ==
    /\ pc = "advance"
    /\ last_count' = current_count
    /\ pc' = "loop"
    /\ UNCHANGED <<extractVars, expandVars, textVars, increased, changed,
                   prev_count, same_run>>
    /\ UNCHANGED <<driver, target_count, attempt, no_change_count, current_count,
                   passes, expansions, passTrace, outcome, milestones, result>>
    /\ UNCHANGED runVars
    /\ UNCHANGED pipeVars

(* last_count = current_count; attempt += 1 *)
ScrollAdvance ==
    /\ pc = "advance"
    /\ last_count' = current_count
    /\ attempt' = attempt + 1
    /\ pc' = "loop"
    /\ UNCHANGED <<extractVars, expandVars, textVars, increased, changed,
                   prev_count, same_run>>
    /\ UNCHANGED <<driver, target_count, no_change_count, current_count,
                   passes, expansions, passTrace, outcome, milestones, result>>
    /\ UNCHANGED runVars
    /\ UNCHANGED pipeVars

(* Final expansion of review texts: self.click_more_buttons() *)
ScrollFinalExpand ==
    /\ pc = "final_expand"
    /\ expansions' = expansions + 1
    /\ milestones' = Append(milestones, "final_expand")
    /\ pc' = "final_count"
    /\ UNCHANGED <<extractVars, expandVars, textVars, increased, changed,
                   prev_count, same_run>>
    /\ UNCHANGED <<driver, target_count, attempt, last_count, no_change_count,
                   current_count, passes, passTrace, outcome, result>>
    /\ UNCHANGED runVars
    /\ UNCHANGED pipeVars

(* final_count = len(find_elements(...)); return True.  The call is       *)
(* outside every try block; LoadState is discarded on return.             *)
ScrollFinalCount ==
    /\ pc = "final_count"
    /\ \E ok \in BOOLEAN :
         IF ok
           THEN /\ pc' = "extract_find"
                /\ attempt' = 0
                /\ last_count' = 0
                /\ no_change_count' = 0
                /\ current_count' = 0
                /\ passes' = 0
                /\ expansions' = 0
                /\ passTrace' = <<>>
                /\ outcome' = "returned"
                /\ increased' = FALSE
                /\ changed' = FALSE
                /\ prev_count' = 0
                /\ same_run' = 0
                /\ UNCHANGED result
           ELSE /\ ScrollRaises
                /\ UNCHANGED <<attempt, last_count, no_change_count,
                               current_count, passes, expansions, passTrace,
                               increased, changed, prev_count, same_run>>
    /\ UNCHANGED <<extractVars, expandVars, textVars>>
    /\ UNCHANGED <<driver, target_count, milestones>>
    /\ UNCHANGED runVars
    /\ UNCHANGED pipeVars

-----------------------------------------------------------------------------
(* extract_reviews *)

(* What the name, date and text elements of the model's documents hold,   *)
(* before strip(): 'a', ' a', 'a_b'; 'c', 'b_c'; 't'                      *)
RawNames == {<<97>>, <<32, 97>>, <<97, 95, 98>>}

RawDates == {<<99>>, <<98, 95, 99>>}

RawTexts == {<<116>>}

(* aria-label of the rating element: '5 stars', 'Rated', ''              *)
AriaLabels == {<<53>> \o StarsSuffix, <<82, 97, 116, 101, 100>>, <<>>}

(* A field read either fails (the field keeps 'N/A') or gives the         *)
(* stripped text of the element.                                          *)
FieldReads(raw) == {NA} \cup {Strip(t) : t \in raw}

(* if aria_label: rating_match = re.search(r'(\d+)', aria_label) ...      *)
RatingOf(aria_label) ==
    IF aria_label # <<>> /\ FirstInt(aria_label) # <<>>
      THEN FirstInt(aria_label) \o StarsSuffix
      ELSE NA

RatingReads == {NA} \cup {RatingOf(l) : l \in AriaLabels}

(* review_id = f"{name}_{date}_{rating}" *)
ReviewId(r) == r.name \o <<95>> \o r.date \o <<95>> \o r.rating

(* The test without the look-up in seen_reviews *)
AcceptsAnyNamed(seen, r) == r.name # NA

(* if review_id not in seen_reviews and review_data['name'] != 'N/A' *)
Accepts(seen, r) == ReviewId(r) \notin seen /\ r.name # NA

(* The break taken one review late *)
ExtractFullLate == Len(reviews) > target_count

(* if len(reviews) >= max_reviews: break *)
ExtractFull == Len(reviews) >= target_count

(* reviews = []; seen_reviews = set(); review_containers = find_elements(...) *)
(* The find is outside every try block of extract_reviews: a failure is   *)
(* caught by the except clause of scrape_reviews.                         *)
ExtractFind ==
    /\ pc = "extract_find"
    /\ milestones' = Append(milestones, "extract")
    /\ \E ok \in BOOLEAN, n \in 0..MaxNodes :
         IF ok
           THEN /\ pc' = "extract_node"
                /\ reviews' = <<>>
                /\ seen_reviews' = {}
                /\ containers' = n
                /\ idx' = 0
                /\ observed' = <<>>
                /\ UNCHANGED result
           ELSE /\ ReturnEmpty
                /\ UNCHANGED <<extractVars, expandVars, textVars>>
    /\ UNCHANGED <<driver, scrollVars, expandVars, textVars>>
    /\ UNCHANGED runVars
    /\ UNCHANGED pipeVars

(* One turn of: for i, container in enumerate(review_containers) *)
ExtractNode ==
    /\ pc = "extract_node"
    /\ idx < containers
    /\ ~ExtractFull
    /\ \E n \in FieldReads(RawNames), d \in FieldReads(RawDates),
          g \in RatingReads, t \in FieldReads(RawTexts) :
         LET review_data == [name |-> n, date |-> d, rating |-> g, text |-> t]
         IN  /\ observed' = Append(observed, review_data)
             /\ IF Accepts(seen_reviews, review_data)
                  THEN /\ seen_reviews' = seen_reviews \cup {ReviewId(review_data)}
                       /\ reviews' = Append(reviews, review_data)
                  ELSE UNCHANGED <<reviews, seen_reviews>>
    /\ idx' = idx + 1
    /\ UNCHANGED <<pc, driver, scrollVars, milestones, result, containers,
                   expandVars, textVars>>
    /\ UNCHANGED runVars
    /\ UNCHANGED pipeVars

(* The loop ends (containers exhausted, or the break) and extract_reviews *)
(* returns; scrape_reviews: if reviews: reviews = preprocess_reviews(...)  *)
ExtractReturn ==
    /\ pc = "extract_node"
    /\ idx >= containers \/ ExtractFull
    /\ IF reviews # <<>>
         THEN pc' = "preprocess" /\ UNCHANGED result
         ELSE pc' = "done" /\ result' = "list"
    /\ observed' = <<>>
    /\ UNCHANGED <<driver, scrollVars, milestones, reviews, seen_reviews,
                   containers, idx, expandVars, textVars>>
    /\ UNCHANGED runVars
    /\ UNCHANGED pipeVars

-----------------------------------------------------------------------------
(* click_more_buttons *)

(* len(more_buttons_selectors) *)
NumSelectors == 7

(* The streak threshold taken one too low *)
ThresholdTooLow == 1 + 1

max_no_new_clicks_attempts == 3

max_total_attempts == 10

(* What happens to one element of buttons_to_click:                       *)
(*   hidden   is_displayed() and is_enabled() is false                    *)
(*   stale    is_displayed() or is_enabled() raises                       *)
(*   clicked  the script click succeeds                                   *)
(*   retried  the click is intercepted, the ActionChains click succeeds   *)
(*   blocked  the click is intercepted, the ActionChains click raises     *)
(*   error    scrolling into view or the click raises another exception   *)
ButtonOutcomes == {"hidden", "stale", "clicked", "retried", "blocked", "error"}

Displayed(o) == o \in {"clicked", "retried", "blocked", "error"}

(* for button in buttons_to_click: ... The exception of a stale element   *)
(* and the exception raised inside the handler of the intercepted click   *)
(* leave the loop through the except clause of the selector; any other    *)
(* exception of a click is caught and the loop continues.                 *)
(* Gives the elements examined and the clicks counted.                    *)
RECURSIVE ClickButtons(_)
ClickButtons(buttons) ==
    IF buttons = <<>> THEN [examined |-> 0, clicks |-> 0, acted |-> FALSE]
    ELSE LET o == Head(buttons)
             rest == IF o \in {"stale", "blocked"}
                       THEN [examined |-> 0, clicks |-> 0, acted |-> FALSE]
                       ELSE ClickButtons(Tail(buttons))
         IN  [examined |-> 1 + rest.examined,
              clicks   |-> (IF o \in {"clicked", "retried"} THEN 1 ELSE 0)
                             + rest.clicks,
              acted    |-> Displayed(o) \/ rest.acted]

(* for attempt_num in range(max_total_attempts): the head of the loop *)
CmbAttempt ==
    /\ pc = "cmb_attempt"
    /\ IF attempt_num < max_total_attempts
         THEN /\ found_and_clicked_in_iteration' = FALSE
              /\ current_iteration_clicks' = 0
              /\ selector' = 1
              /\ attemptsMade' = attemptsMade + 1
              /\ pc' = "cmb_selector"
              /\ UNCHANGED stopped
         ELSE /\ stopped' = "cap"
              /\ pc' = "cmb_done"
              /\ UNCHANGED <<found_and_clicked_in_iteration,
                             current_iteration_clicks, selector, attemptsMade>>
    /\ UNCHANGED <<attempt_num, attempts_without_new_clicks,
                   total_clicked_count, visible, pending, zeroRun, zeroTotal,
                   sawVisible, acted, buttons_to_click, examined>>
    /\ UNCHANGED <<driver, scrollVars, milestones, result, extractVars,
                   textVars>>
    /\ UNCHANGED runVars
    /\ UNCHANGED pipeVars

(* One turn of: for selector in more_buttons_selectors.  The find may     *)
(* raise (the turn is skipped); otherwise it gives a list of elements, of *)
(* which no more than the document's visible controls are displayed.  A   *)
(* successful click expands the text and the control is gone.             *)
CmbSelector ==
    /\ pc = "cmb_selector"
    /\ \E found \in BOOLEAN, buttons \in SeqsUpTo(ButtonOutcomes, MaxButtons) :
         /\ CountIn(buttons, {"clicked", "retried", "blocked", "error"}) <= visible
         /\ LET r == IF found THEN ClickButtons(buttons)
                              ELSE [examined |-> 0, clicks |-> 0, acted |-> FALSE]
            IN  /\ found_and_clicked_in_iteration' =
                       (found_and_clicked_in_iteration \/ r.clicks > 0)
                /\ current_iteration_clicks' = current_iteration_clicks + r.clicks
                /\ visible' = visible - r.clicks
                /\ acted' = (acted \/ r.acted)
                /\ buttons_to_click' = (IF found THEN buttons ELSE <<>>)
                /\ examined' = r.examined
                /\ sawVisible' =
                       (sawVisible \/
                        (found /\ \E i \in 1..Len(buttons) : Displayed(buttons[i])))
    /\ IF selector < NumSelectors
         THEN selector' = selector + 1 /\ UNCHANGED pc
         ELSE pc' = "cmb_tally" /\ UNCHANGED selector
    /\ UNCHANGED <<attempt_num, attempts_without_new_clicks,
                   total_clicked_count, pending, attemptsMade, zeroRun,
                   zeroTotal, stopped>>
    /\ UNCHANGED <<driver, scrollVars, milestones, result, extractVars,
                   textVars>>
    /\ UNCHANGED runVars
    /\ UNCHANGED pipeVars

(* The streak kept after an attempt that clicked, and the next streak *)
StreakNotReset ==
    IF found_and_clicked_in_iteration
      THEN attempts_without_new_clicks
      ELSE attempts_without_new_clicks + 1

(* if found_and_clicked_in_iteration: attempts_without_new_clicks = 0     *)
(* else: attempts_without_new_clicks += 1                                 *)
NextStreak ==
    IF found_and_clicked_in_iteration
      THEN 0
      ELSE attempts_without_new_clicks + 1

(* if found_and_clicked_in_iteration: ... else: ...                       *)
(* if attempts_without_new_clicks >= max_no_new_clicks_attempts: break    *)
(* time.sleep(1): the page settles, controls not yet rendered may appear  *)
CmbTally ==
    /\ pc = "cmb_tally"
    /\ LET streak == NextStreak
       IN  /\ attempts_without_new_clicks' = streak
           /\ total_clicked_count' =
                  IF found_and_clicked_in_iteration
                    THEN total_clicked_count + current_iteration_clicks
                    ELSE total_clicked_count
           /\ IF streak >= max_no_new_clicks_attempts
                THEN /\ stopped' = "streak"
                     /\ pc' = "cmb_done"
                     /\ UNCHANGED <<attempt_num, visible, pending>>
                ELSE /\ attempt_num' = attempt_num + 1
                     /\ pc' = "cmb_attempt"
                     /\ \E k \in 0..pending :
                          visible' = visible + k /\ pending' = pending - k
                     /\ UNCHANGED stopped
    /\ zeroRun' = IF current_iteration_clicks = 0 THEN zeroRun + 1 ELSE 0
    /\ zeroTotal' = IF current_iteration_clicks = 0 THEN zeroTotal + 1 ELSE zeroTotal
    /\ UNCHANGED <<found_and_clicked_in_iteration, current_iteration_clicks,
                   selector, attemptsMade, sawVisible, acted, buttons_to_click,
                   examined>>
    /\ UNCHANGED <<driver, scrollVars, milestones, result, extractVars,
                   textVars>>
    /\ UNCHANGED runVars
    /\ UNCHANGED pipeVars

(* click_more_buttons is called on a document with some visible and some  *)
(* not yet rendered 'More' controls.                                      *)
InitExpand ==
    /\ pc = "cmb_attempt"
    /\ driver = TRUE
    /\ target_count = 0
    /\ ScrollFresh
    /\ milestones = <<>>
    /\ result = "none"
    /\ ExtractFresh
    /\ ExpandFresh
    /\ visible \in 0..MaxControls
    /\ pending \in 0..(MaxControls - visible)
    /\ TextFresh
    /\ PipeFresh
    /\ waited = "no"
    /\ sort_called = FALSE

NextExpand == CmbAttempt \/ CmbSelector \/ CmbTally

SpecExpand == InitExpand /\ [][NextExpand]_vars

(* C6: click_more_buttons makes at most 10 attempts; while it runs, fewer *)
(* than 3 attempts in a row have gone without an activation; it leaves    *)
(* through the streak rule exactly when the third such attempt in a row   *)
(* has been made, however many such attempts were made before a click     *)
(* reset the streak; and it leaves through the cap only after 10          *)
(* attempts.                                                              *)
C6_ExpandBounded ==
    /\ attemptsMade <= 10
    /\ pc \in {"cmb_attempt", "cmb_selector", "cmb_tally"} => zeroRun < 3
    /\ stopped = "streak" => zeroRun = 3 /\ pc = "cmb_done"
    /\ stopped = "cap" => attemptsMade = 10 /\ zeroRun < 3 /\ pc = "cmb_done"
    /\ pc = "cmb_done" => stopped \in {"streak", "cap"}

(* A call that went through more than 3 attempts without an activation,   *)
(* some of them before a click, and then stopped on the streak rule       *)
C6_Witness ==
    /\ pc = "cmb_done"
    /\ stopped = "streak"
    /\ zeroTotal > 3
    /\ total_clicked_count > 0

(* C7: a call of click_more_buttons during which no find returns a        *)
(* visible and enabled control performs no activation, touches no         *)
(* control, and returns after exactly 3 attempts, through the streak rule *)
C7_ExpandIdempotent ==
    (pc = "cmb_done" /\ ~sawVisible) =>
        /\ total_clicked_count = 0
        /\ ~acted
        /\ attemptsMade = 3
        /\ stopped = "streak"

(* A call on a document without any 'More' control has returned *)
C7_Witness ==
    /\ pc = "cmb_done"
    /\ ~sawVisible
    /\ visible = 0
    /\ pending = 0
    /\ attemptsMade = 3

-----------------------------------------------------------------------------
(* normalize_arabic_text *)

(* camel_tools: AR_DIAC_CHARSET, the marks dediac_ar removes *)
ArabicDiacritics == 1611..1618 \cup {1648, 1600}

(* camel_tools: the Alef forms normalize_alef_ar maps to the bare Alef *)
AlefVariants == {1570, 1571, 1573, 1649}

RECURSIVE Remove(_, _)
Remove(s, S) ==
    IF s = <<>> THEN <<>>
    ELSE IF Head(s) \in S THEN Remove(Tail(s), S)
    ELSE <<Head(s)>> \o Remove(Tail(s), S)

MapChars(s, S, c) == [i \in 1..Len(s) |-> IF s[i] \in S THEN c ELSE s[i]]

(* Only the first mark is removed *)
RECURSIVE DediacFirstOnly(_)
DediacFirstOnly(s) ==
    IF s = <<>> THEN <<>>
    ELSE IF Head(s) \in ArabicDiacritics THEN Tail(s)
    ELSE <<Head(s)>> \o DediacFirstOnly(Tail(s))

dediac_ar(s) == Remove(s, ArabicDiacritics)

normalize_alef_ar(s) == MapChars(s, AlefVariants, 1575)

normalize_alef_maksura_ar(s) == MapChars(s, {1609}, 1610)

normalize_teh_marbuta_ar(s) == MapChars(s, {1577}, 1607)

(* normalize_arabic_text(text) when stage failAt raises (0: no stage      *)
(* raises).  Every stage rebinds the local name text, and the except      *)
(* clause returns that name.                                              *)
normalize_arabic_text(text, camel, failAt) ==
    IF ~camel \/ text = <<>> THEN text
    ELSE LET t1 == dediac_ar(text)
             t2 == normalize_alef_ar(t1)
             t3 == normalize_alef_maksura_ar(t2)
             t4 == normalize_teh_marbuta_ar(t3)
         IN  CASE failAt = 1 -> text
               [] failAt = 2 -> t1
               [] failAt = 3 -> t2
               [] failAt = 4 -> t3
               [] OTHER -> Strip(t4)

(* The code points of the texts the normalizer is called with: Alef with  *)
(* Hamza, Alef Maksura, Teh Marbuta, Fatha, 'a' and the space             *)
NormAlphabet == {1571, 1609, 1577, 1614, 97, 32}

NormStages == 1..4

(* normalize_arabic_text is called with a text *)
InitNormalize ==
    /\ pc = "normalize"
    /\ driver = TRUE
    /\ target_count = 0
    /\ ScrollFresh
    /\ milestones = <<>>
    /\ result = "none"
    /\ ExtractFresh
    /\ ExpandFresh
    /\ visible = 0
    /\ pending = 0
    /\ services \in Services
    /\ input_text \in SeqsUpTo(NormAlphabet, MaxTextLen)
    /\ output_text = <<>>
    /\ failed_stage = 0
    /\ again_text = <<>>
    /\ again_stage = 0
    /\ candidate = <<>>
    /\ label = "none"
    /\ display_label = "none"
    /\ raised = FALSE
    /\ PipeFresh
    /\ waited = "no"
    /\ sort_called = FALSE

(* The call runs to its return; one of the stages may raise *)
NormalizeCall ==
    /\ pc = "normalize"
    /\ \E failAt \in {0} \cup NormStages :
         /\ failed_stage' = IF services.camel /\ input_text # <<>>
                              THEN failAt ELSE 0
         /\ output_text' = normalize_arabic_text(input_text, services.camel, failAt)
    /\ pc' = "normalized"
    /\ UNCHANGED <<driver, scrollVars, milestones, result, extractVars,
                   expandVars, services, input_text, again_text, again_stage,
                   candidate, label, display_label, raised>>
    /\ UNCHANGED runVars
    /\ UNCHANGED pipeVars

(* The normalizer is called with the text the first call returned; the    *)
(* availability flag is the module's, and each call raises on its own     *)
NormalizeAgain ==
    /\ pc = "normalized"
    /\ \E failAt \in {0} \cup NormStages :
         /\ again_stage' = IF services.camel /\ output_text # <<>>
                             THEN failAt ELSE 0
         /\ again_text' = normalize_arabic_text(output_text, services.camel, failAt)
    /\ pc' = "renormalized"
    /\ UNCHANGED <<driver, scrollVars, milestones, result, extractVars,
                   expandVars, services, input_text, output_text, failed_stage,
                   candidate, label, display_label, raised>>
    /\ UNCHANGED runVars
    /\ UNCHANGED pipeVars

NextNormalize == NormalizeCall \/ NormalizeAgain

SpecNormalize == InitNormalize /\ [][NextNormalize]_vars

(* C10: when a stage of the normalizer fails, normalize_arabic_text       *)
(* returns the text it was called with.                                   *)
C10_FailClosed ==
    (pc = "normalized" /\ failed_stage # 0) => output_text = input_text

(* C11: the normalizer called with its own result returns that result:   *)
(* when the service is unavailable, when no stage raised in the first     *)
(* call, and when a stage raised in the first call.  The stages are       *)
(* functions of their input: the stage that raised in the first call is   *)
(* given the same text in the second, so the second call raises there, or *)
(* at an earlier stage.                                                   *)
C11_IdempotentSameFailure ==
    (/\ pc = "renormalized"
     /\ \/ failed_stage = 0
        \/ again_stage \in 1..failed_stage)
        => again_text = output_text

(* Both calls raised at the Alef Maksura stage, after the earlier stages  *)
(* had changed the text                                                   *)
C11_Witness ==
    /\ pc = "renormalized"
    /\ failed_stage = 3
    /\ again_stage = 3
    /\ output_text # input_text
    /\ again_text = output_text

-----------------------------------------------------------------------------
(* The text operations of ReviewTextProcessor *)

(* [؀-ۿ] and [a-zA-Z] *)
ArabicRange == 1536..1791

LatinLetters == (65..90) \cup (97..122)

ToLower(c) == IF c \in 65..90 THEN c + 32 ELSE c

ToUpper(c) == IF c \in 97..122 THEN c - 32 ELSE c

(* str.lower() *)
Lower(s) == [i \in 1..Len(s) |-> ToLower(s[i])]

(* str.capitalize() *)
Capitalize(s) ==
    [i \in 1..Len(s) |-> IF i = 1 THEN ToUpper(s[i]) ELSE ToLower(s[i])]

RECURSIVE TakeWord(_)
TakeWord(s) ==
    IF s # <<>> /\ ~IsSpace(Head(s))
      THEN <<Head(s)>> \o TakeWord(Tail(s))
      ELSE <<>>

(* str.split(): the words between runs of whitespace *)
RECURSIVE Split(_)
Split(s) ==
    LET t == LStrip(s)
    IN  IF t = <<>> THEN <<>>
        ELSE LET w == TakeWord(t)
             IN  <<w>> \o Split(SubSeq(t, Len(w) + 1, Len(t)))

(* ' '.join(words) *)
RECURSIVE Join(_)
Join(words) ==
    IF words = <<>> THEN <<>>
    ELSE IF Len(words) = 1 THEN words[1]
    ELSE words[1] \o <<32>> \o Join(Tail(words))

(* sub in s *)
Contains(s, sub) ==
    \E i \in 1..(Len(s) + 1) :
        /\ i + Len(sub) - 1 <= Len(s)
        /\ SubSeq(s, i, i + Len(sub) - 1) = sub

(* s.replace(old, new), old not empty *)
RECURSIVE ReplaceAll(_, _, _)
ReplaceAll(s, old, new) ==
    IF Len(s) < Len(old) THEN s
    ELSE IF SubSeq(s, 1, Len(old)) = old
      THEN new \o ReplaceAll(SubSeq(s, Len(old) + 1, Len(s)), old, new)
      ELSE <<Head(s)>> \o ReplaceAll(Tail(s), old, new)

(* re.sub(r'\s+', ' ', s) *)
RECURSIVE CollapseSpaces(_)
CollapseSpaces(s) ==
    IF s = <<>> THEN <<>>
    ELSE IF IsSpace(Head(s)) THEN <<32>> \o CollapseSpaces(LStrip(s))
    ELSE <<Head(s)>> \o CollapseSpaces(Tail(s))

IsLatinOrSpace(c) == c \in LatinLetters \/ IsSpace(c)

RECURSIVE TakeLatinRun(_)
TakeLatinRun(s) ==
    IF s # <<>> /\ IsLatinOrSpace(Head(s))
      THEN <<Head(s)>> \o TakeLatinRun(Tail(s))
      ELSE <<>>

(* re.findall(r'[a-zA-Z\s]+', s) *)
RECURSIVE LatinRuns(_)
LatinRuns(s) ==
    IF s = <<>> THEN <<>>
    ELSE IF IsLatinOrSpace(Head(s))
      THEN LET run == TakeLatinRun(s)
           IN  <<run>> \o LatinRuns(SubSeq(s, Len(run) + 1, Len(s)))
      ELSE LatinRuns(Tail(s))

(* What a call of the services does, chosen by the caller of the model:   *)
(*   failAt     the stage of the normalizer that raises (0: none)         *)
(*   lang       what langdetect.detect returns, or "raise"                *)
(*   corrector  what TextBlob(text).correct() does                        *)
Behaviours ==
    [failAt : 0..4,
     lang : {"ar", "en", "fr", "raise"},
     corrector : {"same", "m_to_w", "drop_word", "raise"}]

(* detect_language with texts of exactly 3 characters taken as too short *)
DetectLanguageOffByOne(text, sv, bh) ==
    IF text = <<>> \/ Len(Strip(text)) <= 3 THEN "unknown"
    ELSE IF sv.langdetect
      THEN (IF bh.lang = "raise" THEN "unknown" ELSE bh.lang)
      ELSE LET arabic_chars == CountIn(text, ArabicRange)
               english_chars == CountIn(text, LatinLetters)
           IN  IF arabic_chars > english_chars THEN "ar"
               ELSE IF english_chars > arabic_chars THEN "en"
               ELSE "mixed"

(* detect_language *)
detect_language(text, sv, bh) ==
    IF text = <<>> \/ Len(Strip(text)) < 3 THEN "unknown"
    ELSE IF sv.langdetect
      THEN (IF bh.lang = "raise" THEN "unknown" ELSE bh.lang)
      ELSE LET arabic_chars == CountIn(text, ArabicRange)
               english_chars == CountIn(text, LatinLetters)
           IN  IF arabic_chars > english_chars THEN "ar"
               ELSE IF english_chars > arabic_chars THEN "en"
               ELSE "mixed"

(* The false_positives table of correct_english_text:                     *)
(* nice/vice, malls/walls, mall/wall, brands/bands, halal/hall,           *)
(* options/option, if/of, upscale/scale                                   *)
false_positives ==
    { <<<<110, 105, 99, 101>>, <<118, 105, 99, 101>>>>,
      <<<<109, 97, 108, 108, 115>>, <<119, 97, 108, 108, 115>>>>,
      <<<<109, 97, 108, 108>>, <<119, 97, 108, 108>>>>,
      <<<<98, 114, 97, 110, 100, 115>>, <<98, 97, 110, 100, 115>>>>,
      <<<<104, 97, 108, 97, 108>>, <<104, 97, 108, 108>>>>,
      <<<<111, 112, 116, 105, 111, 110, 115>>, <<111, 112, 116, 105, 111, 110>>>>,
      <<<<105, 102>>, <<111, 102>>>>,
      <<<<117, 112, 115, 99, 97, 108, 101>>, <<115, 99, 97, 108, 101>>>> }

(* sum(1 for o, c in zip(original_words, corrected_words) if o != c) *)
RECURSIVE Changes(_, _)
Changes(ow, cw) ==
    IF ow = <<>> \/ cw = <<>> THEN 0
    ELSE (IF Head(ow) # Head(cw) THEN 1 ELSE 0) + Changes(Tail(ow), Tail(cw))

(* The policy without the comparison of the word counts *)
AcceptedAnyLength(text, corrected) ==
    LET original_words == Split(Lower(text))
        corrected_words == Split(Lower(corrected))
        changes == Changes(original_words, corrected_words)
    IN  IF original_words # <<>> /\ 10 * changes > 3 * Len(original_words)
          THEN text
        ELSE IF \E fp \in false_positives :
                   Contains(Lower(text), fp[1]) /\ Contains(Lower(corrected), fp[2])
          THEN text
        ELSE corrected

(* The policy with the table looked up in the texts as they are, not      *)
(* lower-cased                                                            *)
AcceptedCaseSensitive(text, corrected) ==
    LET original_words == Split(Lower(text))
        corrected_words == Split(Lower(corrected))
        changes == Changes(original_words, corrected_words)
    IN  IF Len(original_words) # Len(corrected_words) THEN text
        ELSE IF original_words # <<>> /\ 10 * changes > 3 * Len(original_words)
          THEN text
        ELSE IF \E fp \in false_positives :
                   Contains(text, fp[1]) /\ Contains(corrected, fp[2])
          THEN text
        ELSE corrected

(* The policy with the change ratio limited to 0.2 *)
AcceptedStricterRatio(text, corrected) ==
    LET original_words == Split(Lower(text))
        corrected_words == Split(Lower(corrected))
        changes == Changes(original_words, corrected_words)
    IN  IF Len(original_words) # Len(corrected_words) THEN text
        ELSE IF original_words # <<>> /\ 10 * changes > 2 * Len(original_words)
          THEN text
        ELSE IF \E fp \in false_positives :
                   Contains(Lower(text), fp[1]) /\ Contains(Lower(corrected), fp[2])
          THEN text
        ELSE corrected

(* The policy with a change ratio of exactly 0.3 taken as too many *)
AcceptedRatioInclusive(text, corrected) ==
    LET original_words == Split(Lower(text))
        corrected_words == Split(Lower(corrected))
        changes == Changes(original_words, corrected_words)
    IN  IF Len(original_words) # Len(corrected_words) THEN text
        ELSE IF original_words # <<>> /\ 10 * changes >= 3 * Len(original_words)
          THEN text
        ELSE IF \E fp \in false_positives :
                   Contains(Lower(text), fp[1]) /\ Contains(Lower(corrected), fp[2])
          THEN text
        ELSE corrected

(* The acceptance policy of correct_english_text for the candidate        *)
(* corrected: the word count, the change ratio (changes / words > 0.3),   *)
(* the false positives                                                    *)
AcceptedCorrection(text, corrected) ==
    LET original_words == Split(Lower(text))
        corrected_words == Split(Lower(corrected))
        changes == Changes(original_words, corrected_words)
    IN  IF Len(original_words) # Len(corrected_words) THEN text
        ELSE IF original_words # <<>> /\ 10 * changes > 3 * Len(original_words)
          THEN text
        ELSE IF \E fp \in false_positives :
                   Contains(Lower(text), fp[1]) /\ Contains(Lower(corrected), fp[2])
          THEN text
        ELSE corrected

DropLastWord(s) ==
    LET words == Split(s)
    IN  IF words = <<>> THEN s ELSE Join(SubSeq(words, 1, Len(words) - 1))

(* str(TextBlob(text).correct()) for the behaviours of the model *)
Corrected(text, corrector) ==
    CASE corrector = "m_to_w" -> MapChars(text, {109}, 119)
      [] corrector = "drop_word" -> DropLastWord(text)
      [] OTHER -> text

(* correct_english_text, when str(TextBlob(text).correct()) is corrected, *)
(* or raises                                                              *)
CorrectWith(text, textblob, corrected, raises) ==
    IF ~textblob \/ text = <<>> THEN text
    ELSE IF raises THEN text
    ELSE AcceptedCorrection(text, corrected)

(* correct_english_text *)
correct_english_text(text, sv, bh) ==
    CorrectWith(text, sv.textblob, Corrected(text, bh.corrector),
                bh.corrector = "raise")

(* The loop body of process_mixed_text for one word *)
ProcessWord(word, sv, bh) ==
    IF CountIn(word, ArabicRange) > 0 /\ CountIn(word, LatinLetters) = 0
      THEN normalize_arabic_text(word, sv.camel, bh.failAt)
      ELSE word

(* process_mixed_text *)
process_mixed_text(text, sv, bh) ==
    IF text = <<>> THEN text
    ELSE LET words == Split(text)
         IN  Join([i \in 1..Len(words) |-> ProcessWord(words[i], sv, bh)])

(* for eng_part in english_parts: if len(eng_part.strip()) > 2:           *)
(*     processed_text = processed_text.replace(eng_part, corrected)       *)
RECURSIVE CorrectParts(_, _, _, _)
CorrectParts(processed_text, english_parts, sv, bh) ==
    IF english_parts = <<>> THEN processed_text
    ELSE LET eng_part == Head(english_parts)
             next == IF Len(Strip(eng_part)) > 2
                       THEN ReplaceAll(processed_text, eng_part,
                                       correct_english_text(eng_part, sv, bh))
                       ELSE processed_text
         IN  CorrectParts(next, Tail(english_parts), sv, bh)

(* process_review_text; process_arabic_text is normalize_arabic_text and  *)
(* a dialect probe that only prints                                       *)
process_review_text(text, sv, bh) ==
    IF text = <<>> \/ text = NA THEN text
    ELSE LET lang == detect_language(text, sv, bh)
             processed_text ==
                 IF lang = "ar" THEN normalize_arabic_text(text, sv.camel, bh.failAt)
                 ELSE IF lang = "en" THEN correct_english_text(text, sv, bh)
                 ELSE LET mixed == process_mixed_text(text, sv, bh)
                      IN  IF sv.textblob
                            THEN CorrectParts(mixed, LatinRuns(mixed), sv, bh)
                            ELSE mixed
         IN  Strip(CollapseSpaces(processed_text))

(* The loop body with the first letter raised and the others left alone *)
CleanWordFirstOnly(word, sv, bh) ==
    IF CountIn(word, ArabicRange) > 0
      THEN normalize_arabic_text(word, sv.camel, bh.failAt)
      ELSE [i \in 1..Len(word) |-> IF i = 1 THEN ToUpper(word[i]) ELSE word[i]]

(* The loop body of clean_reviewer_name for one word *)
CleanWord(word, sv, bh) ==
    IF CountIn(word, ArabicRange) > 0
      THEN normalize_arabic_text(word, sv.camel, bh.failAt)
      ELSE Capitalize(word)

(* clean_reviewer_name *)
clean_reviewer_name(name, sv, bh) ==
    IF name = <<>> \/ name = NA THEN name
    ELSE LET words == Split(Strip(CollapseSpaces(name)))
         IN  Join([i \in 1..Len(words) |-> CleanWord(words[i], sv, bh)])

(* The loop body of preprocess_reviews for one review *)
PreprocessReview(review, sv, bh) ==
    [review EXCEPT !.name = clean_reviewer_name(review.name, sv, bh),
                   !.text = process_review_text(review.text, sv, bh)]

-----------------------------------------------------------------------------
(* correct_english_text, called with a text *)

(* 'Great malls in Riyadh' *)
GreatMalls == <<71, 114, 101, 97, 116, 32, 109, 97, 108, 108, 115, 32, 105, 110, 32, 82, 105, 121, 97, 100, 104>>

(* 'Great walls in Riyadh' *)
GreatWalls == <<71, 114, 101, 97, 116, 32, 119, 97, 108, 108, 115, 32, 105, 110, 32, 82, 105, 121, 97, 100, 104>>

(* 'The mall is beutiful' *)
MallBeutiful == <<84, 104, 101, 32, 109, 97, 108, 108, 32, 105, 115, 32, 98, 101, 117, 116, 105, 102, 117, 108>>

(* 'The mall is beautiful' *)
MallBeautiful == <<84, 104, 101, 32, 109, 97, 108, 108, 32, 105, 115, 32, 98, 101, 97, 117, 116, 105, 102, 117, 108>>

(* 'The roof is beutiful' *)
RoofBeutiful == <<84, 104, 101, 32, 114, 111, 111, 102, 32, 105, 115, 32, 98, 101, 117, 116, 105, 102, 117, 108>>

(* 'The roof is beautiful' *)
RoofBeautiful == <<84, 104, 101, 32, 114, 111, 111, 102, 32, 105, 115, 32, 98, 101, 97, 117, 116, 105, 102, 117, 108>>

(* 'a b c' *)
ABC == <<97, 32, 98, 32, 99>>

(* 'a b c d e f g h i j' *)
TenWords == <<97, 32, 98, 32, 99, 32, 100, 32, 101, 32, 102, 32, 103, 32, 104, 32, 105, 32, 106>>

(* ' ': a text without a word *)
Blank == <<32>>

(* The texts correct_english_text is called with *)
Phrases == {GreatMalls, MallBeutiful, RoofBeutiful, ABC, TenWords, Blank, <<>>}

(* The words the spelling service puts in the place of a word:            *)
(* walls, Walls, wall, beautiful, of                                      *)
Replacements ==
    { <<119, 97, 108, 108, 115>>,
      <<87, 97, 108, 108, 115>>,
      <<119, 97, 108, 108>>,
      <<98, 101, 97, 117, 116, 105, 102, 117, 108>>,
      <<111, 102>> }

(* What the spelling service puts in the place of one word: a word of one *)
(* letter becomes its capital or 'of', a longer word one of Replacements  *)
Corrections(word) ==
    IF Len(word) = 1 THEN {Capitalize(word), <<111, 102>>} ELSE Replacements

(* Words changed by the spelling service in one text, at most *)
MaxEdits == 4

(* The word lists got from words by replacing at most k of them *)
Edits(words, k) ==
    UNION { { [i \in 1..Len(words) |-> IF i \in P THEN f[i] ELSE words[i]] :
                f \in {g \in [P -> UNION {Corrections(words[i]) : i \in P}] :
                          \A i \in P : g[i] \in Corrections(words[i])} } :
            P \in {Q \in SUBSET (1..Len(words)) : Cardinality(Q) <= k} }

(* What str(TextBlob(text).correct()) can be: the text with some words    *)
(* replaced, and with its last word dropped or a word added               *)
Candidates(text) ==
    LET edited == Edits(Split(text), MaxEdits)
    IN  {Join(w) : w \in edited}
          \cup {Join(SubSeq(w, 1, Len(w) - 1)) : w \in {e \in edited : e # <<>>}}
          \cup {Join(Append(w, <<111, 102>>)) : w \in edited}

Idle ==
    /\ driver = TRUE
    /\ target_count = 0
    /\ ScrollFresh
    /\ milestones = <<>>
    /\ result = "none"
    /\ ExtractFresh
    /\ ExpandFresh
    /\ visible = 0
    /\ pending = 0
    /\ waited = "no"
    /\ sort_called = FALSE

InitCorrect ==
    /\ pc = "correct"
    /\ Idle
    /\ PipeFresh
    /\ services \in Services
    /\ input_text \in Phrases
    /\ output_text = <<>>
    /\ failed_stage = 0
    /\ again_text = <<>>
    /\ again_stage = 0
    /\ candidate = <<>>
    /\ label = "none"
    /\ display_label = "none"
    /\ raised = FALSE

(* The call runs to its return; with the service available and a text     *)
(* given, TextBlob(text).correct() returns a candidate or raises          *)
CorrectCall ==
    /\ pc = "correct"
    /\ IF services.textblob /\ input_text # <<>>
         THEN \E raises \in BOOLEAN, corrected \in Candidates(input_text) :
                 /\ raised' = raises
                 /\ candidate' = IF raises THEN <<>> ELSE corrected
                 /\ output_text' = CorrectWith(input_text, services.textblob,
                                               corrected, raises)
         ELSE /\ output_text' = CorrectWith(input_text, services.textblob, <<>>, FALSE)
              /\ UNCHANGED <<candidate, raised>>
    /\ pc' = "corrected"
    /\ UNCHANGED <<driver, scrollVars, milestones, result, extractVars,
                   expandVars, services, input_text, failed_stage, again_text,
                   again_stage, label, display_label>>
    /\ UNCHANGED runVars
    /\ UNCHANGED pipeVars

NextCorrect == CorrectCall

SpecCorrect == InitCorrect /\ [][NextCorrect]_vars

(* The spelling service returned a candidate for the text *)
CandidateProduced ==
    /\ pc = "corrected"
    /\ services.textblob
    /\ input_text # <<>>
    /\ ~raised

(* Some pair of the table has its first word in the lower-cased input and *)
(* its second in the lower-cased candidate                                *)
TableFires ==
    \E fp \in false_positives :
        Contains(Lower(input_text), fp[1]) /\ Contains(Lower(candidate), fp[2])

(* The positions where the lower-cased words of input and candidate differ *)
ChangedWords ==
    LET ow == Split(Lower(input_text))
        cw == Split(Lower(candidate))
    IN  {i \in 1..Len(ow) : i <= Len(cw) /\ ow[i] # cw[i]}

(* C12: if the candidate has another number of words than the input,     *)
(* correct_english_text returns the input.                                *)
C12_WordCountGuard ==
    (CandidateProduced /\ Len(Split(candidate)) # Len(Split(input_text)))
        => output_text = input_text

(* 'a b c' with a candidate of two words *)
C12_Witness ==
    /\ CandidateProduced
    /\ input_text = ABC
    /\ Len(Split(candidate)) = 2
    /\ output_text = ABC

(* C13: if a pair of the false-positive table has its original in the    *)
(* lower-cased input and its wrong correction in the lower-cased          *)
(* candidate, correct_english_text returns the input.                     *)
C13_FalsePositiveGuard ==
    (CandidateProduced /\ TableFires) => output_text = input_text

(* 'Great malls in Riyadh' with the candidate 'Great walls in Riyadh' *)
C13_Witness ==
    /\ CandidateProduced
    /\ input_text = GreatMalls
    /\ candidate = GreatWalls
    /\ output_text = GreatMalls

(* C14, as stated: a candidate with the word count of the input that      *)
(* changes one word, with a change ratio of at most 0.3, that change not  *)
(* being a pair of the false-positive table, is returned.                 *)
C14_SingleChangeAccepted ==
    (/\ CandidateProduced
     /\ Len(Split(candidate)) = Len(Split(input_text))
     /\ Cardinality(ChangedWords) = 1
     /\ 10 * 1 <= 3 * Len(Split(input_text))
     /\ \A i \in ChangedWords :
           <<Split(Lower(input_text))[i], Split(Lower(candidate))[i]>>
               \notin false_positives)
        => output_text = candidate

(* C14, amended: a candidate with the word count of the input that        *)
(* changes one word, with a change ratio of at most 0.3, is returned if   *)
(* no pair of the table has its original in the lower-cased input and its *)
(* wrong correction in the lower-cased candidate.                         *)
C14_AcceptedUnlessTableFires ==
    (/\ CandidateProduced
     /\ Len(Split(candidate)) = Len(Split(input_text))
     /\ Cardinality(ChangedWords) = 1
     /\ 10 * 1 <= 3 * Len(Split(input_text))
     /\ ~TableFires)
        => output_text = candidate

(* 'The mall is beutiful' with the candidate 'The mall is beautiful' *)
C14_Witness ==
    /\ CandidateProduced
    /\ input_text = MallBeutiful
    /\ candidate = MallBeautiful
    /\ output_text = MallBeautiful

(* C24: a candidate with the word count of the input is rejected by the   *)
(* change ratio exactly when the positions whose lower-cased words differ *)
(* are strictly more than 30% of the words of the input: then the input   *)
(* is returned; with at most 30% (3 of 10 words, or a text without words) *)
(* the candidate is returned unless the false-positive table fires.       *)
C24_RatioRule ==
    (CandidateProduced /\ Len(Split(candidate)) = Len(Split(input_text))) =>
        LET n == Len(Split(input_text))
            changes == Cardinality(ChangedWords)
        IN  /\ 10 * changes > 3 * n => output_text = input_text
            /\ (10 * changes <= 3 * n /\ ~TableFires) => output_text = candidate

(* The ten words with three words replaced and a fourth capitalised: the  *)
(* candidate is returned                                                  *)
C24_Witness ==
    /\ CandidateProduced
    /\ input_text = TenWords
    /\ Len(Split(candidate)) = 10
    /\ Cardinality(ChangedWords) = 3
    /\ candidate # Lower(candidate)
    /\ output_text = candidate
    /\ output_text # input_text

-----------------------------------------------------------------------------
(* detect_language and detect_review_language, called with a text *)

(* detect_review_language with the two language thresholds inclusive *)
DetectReviewInclusive(text) ==
    IF text = <<>> \/ text = NA THEN "unknown"
    ELSE LET arabic_chars == CountIn(text, ArabicRange)
             english_chars == CountIn(text, LatinLetters)
             total_chars == arabic_chars + english_chars
         IN  IF total_chars = 0 THEN "unknown"
             ELSE IF 10 * arabic_chars >= 7 * total_chars THEN "arabic"
             ELSE IF 10 * english_chars >= 7 * total_chars THEN "english"
             ELSE IF 5 * arabic_chars > total_chars /\ 5 * english_chars > total_chars
               THEN "mixed"
             ELSE "unknown"

(* detect_review_language with mixed for ratios above 0.3 only *)
DetectReviewNarrowMixed(text) ==
    IF text = <<>> \/ text = NA THEN "unknown"
    ELSE LET arabic_chars == CountIn(text, ArabicRange)
             english_chars == CountIn(text, LatinLetters)
             total_chars == arabic_chars + english_chars
         IN  IF total_chars = 0 THEN "unknown"
             ELSE IF 10 * arabic_chars > 7 * total_chars THEN "arabic"
             ELSE IF 10 * english_chars > 7 * total_chars THEN "english"
             ELSE IF 10 * arabic_chars > 3 * total_chars
                     /\ 10 * english_chars > 3 * total_chars
               THEN "mixed"
             ELSE "unknown"

(* detect_review_language.  The ratios are quotients of two counts below  *)
(* 2^53 compared with the doubles 0.7 and 0.2: the quotient is above the  *)
(* double exactly when the exact ratio is above 0.7, or 0.2.              *)
detect_review_language(text) ==
    IF text = <<>> \/ text = NA THEN "unknown"
    ELSE LET arabic_chars == CountIn(text, ArabicRange)
             english_chars == CountIn(text, LatinLetters)
             total_chars == arabic_chars + english_chars
         IN  IF total_chars = 0 THEN "unknown"
             ELSE IF 10 * arabic_chars > 7 * total_chars THEN "arabic"
             ELSE IF 10 * english_chars > 7 * total_chars THEN "english"
             ELSE IF 5 * arabic_chars > total_chars /\ 5 * english_chars > total_chars
               THEN "mixed"
             ELSE "unknown"

(* The code points of the short texts: Alef, Fatha, 'a', 'B', the space   *)
(* and '1'                                                                *)
DetectAlphabet == {1575, 1614, 97, 66, 32, 49}

(* Letters of one script in a text, at most *)
MaxLetters == 7

Repeat(c, n) == [i \in 1..n |-> c]

(* A text of a Arabic letters, e Latin letters and o digits *)
TextOf(a, e, o) == Repeat(1575, a) \o Repeat(97, e) \o Repeat(49, o)

(* The texts the classifiers are called with *)
DetectTexts ==
    SeqsUpTo(DetectAlphabet, MaxTextLen)
      \cup {TextOf(a, e, o) : a \in 0..MaxLetters, e \in 0..MaxLetters, o \in 0..1}
      \cup {NA}

InitDetect ==
    /\ pc = "classify"
    /\ Idle
    /\ PipeFresh
    /\ services \in Services
    /\ input_text \in DetectTexts
    /\ output_text = <<>>
    /\ failed_stage = 0
    /\ again_text = <<>>
    /\ again_stage = 0
    /\ candidate = <<>>
    /\ label = "none"
    /\ display_label = "none"
    /\ raised = FALSE

(* detect_language(text): langdetect.detect returns a language or raises *)
DetectCall ==
    /\ pc = "classify"
    /\ \E lang \in {"ar", "en", "fr", "raise"} :
         /\ label' = detect_language(input_text, services,
                                     [failAt |-> 0, lang |-> lang, corrector |-> "same"])
         /\ raised' = (/\ lang = "raise"
                       /\ services.langdetect
                       /\ Len(Strip(input_text)) >= 3)
    /\ pc' = "routed"
    /\ UNCHANGED <<driver, scrollVars, milestones, result, extractVars,
                   expandVars, services, input_text, output_text, failed_stage,
                   again_text, again_stage, candidate, display_label>>
    /\ UNCHANGED runVars
    /\ UNCHANGED pipeVars

(* detect_review_language(text) *)
DetectReviewCall ==
    /\ pc = "routed"
    /\ display_label' = detect_review_language(input_text)
    /\ pc' = "classified"
    /\ UNCHANGED <<driver, scrollVars, milestones, result, extractVars,
                   expandVars, services, input_text, output_text, failed_stage,
                   again_text, again_stage, candidate, label, raised>>
    /\ UNCHANGED runVars
    /\ UNCHANGED pipeVars

NextDetect == DetectCall \/ DetectReviewCall

SpecDetect == InitDetect /\ [][NextDetect]_vars

OnlyFrom(text, S) == \A i \in 1..Len(text) : text[i] \in S

(* C15, as stated: without langdetect, detect_language returns 'ar' for   *)
(* every non-empty text of Arabic-range code points only and 'en' for     *)
(* every non-empty text of Latin letters only.                            *)
C15_PureTexts ==
    (pc = "classified" /\ ~services.langdetect /\ input_text # <<>>) =>
        /\ OnlyFrom(input_text, ArabicRange) => label = "ar"
        /\ OnlyFrom(input_text, LatinLetters) => label = "en"

(* C15, amended: without langdetect, detect_language returns 'ar' for     *)
(* every text of at least 3 code points, all in the Arabic range, 'en'    *)
(* for every text of at least 3 Latin letters and no other code point,    *)
(* and 'unknown' for such texts of 1 or 2 code points.                    *)
C15_PureTextsOfThree ==
    (pc = "classified" /\ ~services.langdetect /\ input_text # <<>>) =>
        /\ (OnlyFrom(input_text, ArabicRange) /\ Len(input_text) >= 3)
               => label = "ar"
        /\ (OnlyFrom(input_text, LatinLetters) /\ Len(input_text) >= 3)
               => label = "en"
        /\ ((OnlyFrom(input_text, ArabicRange) \/ OnlyFrom(input_text, LatinLetters))
               /\ Len(input_text) < 3) => label = "unknown"

(* 'aBa' was classified as English by the count of its letters *)
C15_Witness ==
    /\ pc = "classified"
    /\ ~services.langdetect
    /\ input_text = <<97, 66, 97>>
    /\ label = "en"

(* C16: both classifiers return unknown for the empty text and every text *)
(* of fewer than 3 characters once stripped.                              *)
C16_ShortTextsUnknown ==
    (pc = "classified" /\ Len(Strip(input_text)) < 3) =>
        /\ label = "unknown"
        /\ display_label = "unknown"

ArabicCount == CountIn(input_text, ArabicRange)

LatinCount == CountIn(input_text, LatinLetters)

(* The label the thresholds 0.7 and 0.2 give to a over a + e and e over   *)
(* a + e                                                                  *)
ByRatio(a, e) ==
    IF 10 * a > 7 * (a + e) THEN "arabic"
    ELSE IF 10 * e > 7 * (a + e) THEN "english"
    ELSE IF 5 * a > a + e /\ 5 * e > a + e THEN "mixed"
    ELSE "unknown"

(* C17, as stated: every text with a + e > 0 gets from                    *)
(* detect_review_language the label its ratios give.                      *)
C17_RatioLabels ==
    (pc = "classified" /\ ArabicCount + LatinCount > 0) =>
        display_label = ByRatio(ArabicCount, LatinCount)

(* C17, amended: every text with a + e > 0 other than the sentinel 'N/A'  *)
(* gets the label its ratios give; 4 Arabic letters to 1 Latin give       *)
(* arabic, equal counts give mixed, 7 to 3 give mixed either way; the     *)
(* sentinel gets unknown.                                                 *)
C17_RatioLabelsButSentinel ==
    pc = "classified" =>
        /\ (ArabicCount + LatinCount > 0 /\ input_text # NA) =>
               /\ display_label = ByRatio(ArabicCount, LatinCount)
               /\ (ArabicCount = 4 * LatinCount) => display_label = "arabic"
               /\ (ArabicCount = LatinCount) => display_label = "mixed"
               /\ (3 * ArabicCount = 7 * LatinCount) => display_label = "mixed"
               /\ (7 * ArabicCount = 3 * LatinCount) => display_label = "mixed"
        /\ input_text = NA => display_label = "unknown"

(* A text of 7 Arabic and 3 Latin letters, a ratio of 0.7, came out mixed *)
C17_Witness ==
    /\ pc = "classified"
    /\ ArabicCount = 7
    /\ LatinCount = 3
    /\ display_label = "mixed"

(* C30: detect_review_language returns arabic, english or mixed for every *)
(* text with an Arabic-range character or a Latin letter, the sentinel    *)
(* 'N/A' apart: unknown is returned exactly for the empty text, for 'N/A' *)
(* and for a text without such a character; the last branch is never      *)
(* taken.                                                                 *)
C30_UnknownOnlyWithoutLetters ==
    pc = "classified" =>
        /\ display_label \in {"arabic", "english", "mixed", "unknown"}
        /\ display_label = "unknown" <=>
               \/ input_text = <<>>
               \/ input_text = NA
               \/ ArabicCount + LatinCount = 0

(* A text of 3 Arabic and 7 Latin letters and a digit, with ratios of 0.3 *)
(* and 0.7, came out mixed                                                *)
C30_Witness ==
    /\ pc = "classified"
    /\ input_text = TextOf(3, 7, 1)
    /\ display_label = "mixed"

-----------------------------------------------------------------------------
(* clean_reviewer_name, called with a name *)

(* 'mohammed', 'ahmed', and the Arabic names Muhammad and Fatima written  *)
(* with their diacritics (Fatima ends in Teh Marbuta)                     *)
NameWords ==
    { <<109, 111, 104, 97, 109, 109, 101, 100>>,
      <<97, 104, 109, 101, 100>>,
      <<1605, 1615, 1581, 1614, 1605, 1614, 1617, 1583>>,
      <<1601, 1614, 1575, 1591, 1616, 1605, 1614, 1577>> }

(* 'Mohammed Ahmed' *)
MohammedAhmed == <<77, 111, 104, 97, 109, 109, 101, 100, 32, 65, 104, 109, 101, 100>>

(* 'mohammed' and Fatima with its diacritics *)
MohammedFatima == <<109, 111, 104, 97, 109, 109, 101, 100, 32, 1601, 1614, 1575, 1591, 1616, 1605, 1614, 1577>>

(* 'Mohammed' and Fatima without diacritics, Heh for its Teh Marbuta *)
MohammedFatimaCleaned == <<77, 111, 104, 97, 109, 109, 101, 100, 32, 1601, 1575, 1591, 1605, 1607>>

(* 'mohammed ahmed' *)
LowerMohammedAhmed == Lower(MohammedAhmed)

(* Words of a name, at most *)
MaxNameWords == 2

(* The code points of the short names: Alef with Hamza, Teh Marbuta,      *)
(* Fatha, 'a', 'B' and the space                                          *)
NameAlphabet == {1571, 1577, 1614, 97, 66, 32}

(* The names clean_reviewer_name is called with *)
Names ==
    SeqsUpTo(NameAlphabet, MaxTextLen)
      \cup {Join(w) : w \in SeqsUpTo(NameWords, MaxNameWords)}
      \cup {NA, LowerMohammedAhmed}

InitClean ==
    /\ pc = "clean"
    /\ Idle
    /\ PipeFresh
    /\ services \in Services
    /\ input_text \in Names
    /\ output_text = <<>>
    /\ failed_stage = 0
    /\ again_text = <<>>
    /\ again_stage = 0
    /\ candidate = <<>>
    /\ label = "none"
    /\ display_label = "none"
    /\ raised = FALSE

HasArabic(word) == CountIn(word, ArabicRange) > 0

(* The call runs to its return; a stage of the normalizer may raise on    *)
(* the Arabic words                                                       *)
CleanCall ==
    /\ pc = "clean"
    /\ \E failAt \in {0} \cup NormStages :
         /\ failed_stage' =
                IF /\ services.camel
                   /\ input_text # NA
                   /\ \E i \in 1..Len(Split(input_text)) :
                          HasArabic(Split(input_text)[i])
                  THEN failAt ELSE 0
         /\ output_text' = clean_reviewer_name(input_text, services,
                               [failAt |-> failAt, lang |-> "ar", corrector |-> "same"])
    /\ pc' = "cleaned"
    /\ UNCHANGED <<driver, scrollVars, milestones, result, extractVars,
                   expandVars, services, input_text, again_text, again_stage,
                   candidate, label, display_label, raised>>
    /\ UNCHANGED runVars
    /\ UNCHANGED pipeVars

NextClean == CleanCall

SpecClean == InitClean /\ [][NextClean]_vars

(* What the three mapping stages make of a code point *)
Fold(c) ==
    IF c \in AlefVariants THEN 1575
    ELSE IF c = 1609 THEN 1610
    ELSE IF c = 1577 THEN 1607
    ELSE c

(* The name was cleaned with the normalizer available and no stage raising *)
CleanedNormally ==
    /\ pc = "cleaned"
    /\ input_text # NA
    /\ input_text # <<>>
    /\ services.camel
    /\ failed_stage = 0

(* C18, as stated: the name keeps the number and the order of its words,  *)
(* a word without Arabic characters comes out capitalized, and an Arabic  *)
(* word comes out with its diacritics removed and nothing else changed.   *)
C18_NameCleaned ==
    CleanedNormally =>
        LET iw == Split(input_text)
            ow == Split(output_text)
        IN  /\ Len(ow) = Len(iw)
            /\ \A i \in 1..Len(iw) :
                  i <= Len(ow) =>
                      ow[i] = IF HasArabic(iw[i]) THEN dediac_ar(iw[i])
                                                 ELSE Capitalize(iw[i])

(* C18, amended: the name comes out as its words in order, joined by      *)
(* single spaces, a word without Arabic characters capitalized, and an    *)
(* Arabic word with its diacritics removed and its Alef variants, Alef    *)
(* Maksura and Teh Marbuta replaced by Alef, Yeh and Heh; the number of   *)
(* words is kept unless a word consists of diacritics only.               *)
C18_NameNormalized ==
    CleanedNormally =>
        LET iw == Split(input_text)
            ow == Split(output_text)
            Cleaned(w) == IF HasArabic(w)
                            THEN [j \in 1..Len(dediac_ar(w)) |-> Fold(dediac_ar(w)[j])]
                            ELSE Capitalize(w)
        IN  /\ output_text = Join([i \in 1..Len(iw) |-> Cleaned(iw[i])])
            /\ Lower(input_text) = Lower(MohammedAhmed) => output_text = MohammedAhmed
            /\ (\A i \in 1..Len(iw) : dediac_ar(iw[i]) # <<>>) =>
                  /\ Len(ow) = Len(iw)
                  /\ \A i \in 1..Len(iw) : ow[i] = Cleaned(iw[i])

(* 'mohammed' and Fatima came out as 'Mohammed' and Fatima without        *)
(* diacritics, Heh for its Teh Marbuta                                    *)
C18_Witness ==
    /\ CleanedNormally
    /\ input_text = MohammedFatima
    /\ output_text = MohammedFatimaCleaned

-----------------------------------------------------------------------------
(* process_review_text, called with a text of Latin and Arabic words *)

(* 'a b c m ا a b c m m' *)
MixedRepeat == <<97, 32, 98, 32, 99, 32, 109, 32, 1575, 32, 97, 32, 98, 32, 99, 32, 109, 32, 109>>

(* 'a b c m ا m b c a' *)
MixedTwice == <<97, 32, 98, 32, 99, 32, 109, 32, 1575, 32, 109, 32, 98, 32, 99, 32, 97>>

(* 'a b c m اَ': the Arabic word has a diacritic *)
MixedOnce == <<97, 32, 98, 32, 99, 32, 109, 32, 1575, 1614>>

(* 'am ا  am' *)
MixedShort == <<97, 109, 32, 1575, 32, 32, 97, 109>>

(* The texts process_review_text is called with *)
MixedTexts == {MixedRepeat, MixedTwice, MixedOnce, MixedShort, NA, <<>>}

(* The behaviours of the services in such a call *)
MixedBehaviours ==
    [failAt : {0, 1}, lang : {"fr", "raise"}, corrector : {"same", "m_to_w", "raise"}]

InitMixed ==
    /\ pc = "mixed"
    /\ Idle
    /\ ListsFresh
    /\ services \in Services
    /\ behaviour \in MixedBehaviours
    /\ input_text \in MixedTexts
    /\ output_text = <<>>
    /\ failed_stage = 0
    /\ again_text = <<>>
    /\ again_stage = 0
    /\ candidate = <<>>
    /\ label = "none"
    /\ display_label = "none"
    /\ raised = FALSE

(* The call runs to its return; label is what detect_language returned *)
MixedCall ==
    /\ pc = "mixed"
    /\ label' = IF input_text = <<>> \/ input_text = NA THEN "none"
                ELSE detect_language(input_text, services, behaviour)
    /\ output_text' = process_review_text(input_text, services, behaviour)
    /\ pc' = "processed"
    /\ UNCHANGED <<driver, scrollVars, milestones, result, extractVars,
                   expandVars, services, input_text, failed_stage, again_text,
                   again_stage, candidate, display_label, raised>>
    /\ UNCHANGED runVars
    /\ UNCHANGED pipeVars

NextMixed == MixedCall

SpecMixed == InitMixed /\ [][NextMixed]_vars

(* The text with every maximal run of Latin letters and whitespace of     *)
(* more than 2 trimmed characters replaced by what correct_english_text   *)
(* returns for that run, and everything else left as it is                *)
RECURSIVE RunsCorrected(_, _, _)
RunsCorrected(s, sv, bh) ==
    IF s = <<>> THEN <<>>
    ELSE IF IsLatinOrSpace(Head(s))
      THEN LET run == TakeLatinRun(s)
           IN  (IF Len(Strip(run)) > 2 THEN correct_english_text(run, sv, bh)
                                       ELSE run)
                 \o RunsCorrected(SubSeq(s, Len(run) + 1, Len(s)), sv, bh)
      ELSE <<Head(s)>> \o RunsCorrected(Tail(s), sv, bh)

(* The call took the branch of the mixed and unknown texts *)
MixedBranch ==
    /\ pc = "processed"
    /\ label \notin {"none", "ar", "en"}

(* C25: in the branch of the mixed texts, the second pass replaces every  *)
(* maximal Latin run of more than 2 trimmed characters by the corrector's *)
(* result for that run, independently of the other runs, and leaves the   *)
(* rest as the word-level pass produced it; no run given to the corrector *)
(* has an Arabic character.                                               *)
C25_RunsCorrectedIndependently ==
    MixedBranch =>
        LET mixed == process_mixed_text(input_text, services, behaviour)
            runs == LatinRuns(mixed)
        IN  /\ output_text =
                   Strip(CollapseSpaces(RunsCorrected(mixed, services, behaviour)))
            /\ \A i \in 1..Len(runs) : CountIn(runs[i], ArabicRange) = 0

-----------------------------------------------------------------------------
(* scrape_reviews: the steps after the loading loop *)

(* The behaviours of the services drawn for a run of the whole pipeline *)
PipelineBehaviours ==
    [failAt : {0, 2}, lang : {"ar", "raise"}, corrector : {"same", "m_to_w"}]

(* preprocess_reviews: every review goes through clean_reviewer_name and  *)
(* process_review_text, neither of which raises; scrape_reviews returns   *)
(* the new list.  The availability flags, fixed when the module was       *)
(* imported, are read here for the first time, and are drawn here.        *)
Preprocess ==
    /\ pc = "preprocess"
    /\ milestones' = Append(milestones, "preprocess")
    /\ \E sv \in Services, bh \in PipelineBehaviours :
         /\ services' = sv
         /\ reviews' = [i \in 1..Len(reviews) |->
                           PreprocessReview(reviews[i], sv, bh)]
    /\ pc' = "done"
    /\ result' = "list"
    /\ UNCHANGED <<driver, scrollVars, seen_reviews, containers, idx,
                   observed, expandVars, input_text, output_text, failed_stage,
                   again_text, again_stage, candidate, label, display_label, raised>>
    /\ UNCHANGED runVars
    /\ UNCHANGED pipeVars

Next ==
    \/ Start
    \/ Get
    \/ Wait
    \/ Sort
    \/ ScrollLoop
    \/ ScrollExpand
    \/ ScrollCount
    \/ ScrollCheck
    \/ ScrollCompare
    \/ Escalate1
    \/ Escalate2
    \/ Escalate3
    \/ ScrollStagnate
    \/ ScrollStandard
    \/ ScrollAdvance
    \/ ScrollFinalExpand
    \/ ScrollFinalCount
    \/ ExtractFind
    \/ ExtractNode
    \/ ExtractReturn
    \/ Preprocess

Spec == Init /\ [][Next]_vars

-----------------------------------------------------------------------------
(* preprocess_reviews of the scraper, then process_reviews_function, on a *)
(* list of review dictionaries                                            *)

(* Reviews in a list given to preprocess_reviews, at most *)
MaxRecords == 2

(* 'a b' *)
NameAB == <<97, 32, 98>>

(* 'a b m' and an Alef with three diacritics *)
DiacText == <<97, 32, 98, 32, 109, 32, 1575, 1614, 1615, 1616>>

(* 'a b m ا' *)
DiacTextNormalized == <<97, 32, 98, 32, 109, 32, 1575>>

(* The dictionaries extract_reviews may have put in the list *)
PipeRecords ==
    [name : {NA, NameAB}, date : {<<99>>}, rating : {NA},
     text : {NA, <<>>, DiacText, MixedOnce}]

(* The dictionary processed_review is bound to without review.copy(): the *)
(* one in the list                                                        *)
NoCopy(n, i, review) == review

(* processed_review = review.copy(): a new dictionary, the i-th made by   *)
(* the call, the heap holding n before the call                           *)
Copy(n, i, review) == n + i

(* The heap after a call that binds processed_review, for every review of *)
(* the list reviews, to a dictionary and stores there the name and the    *)
(* text processed for the review (the i-th record of processed)           *)
HeapAfter(reviews_list, processed) ==
    LET n == Len(heap)
        target(i) == Copy(n, i, reviews_list[i])
    IN  [k \in 1..(n + Len(reviews_list)) |->
            IF \E i \in 1..Len(reviews_list) : target(i) = k
              THEN LET i == CHOOSE j \in 1..Len(reviews_list) : target(j) = k
                   IN  processed[i]
            ELSE IF k <= n THEN heap[k]
            ELSE heap[reviews_list[k - n]]]

(* processed_reviews of such a call *)
ListAfter(reviews_list) ==
    [i \in 1..Len(reviews_list) |-> Copy(Len(heap), i, reviews_list[i])]

(* The loop body of ReviewTextProcessor.preprocess_reviews: the text is   *)
(* processed if it is not empty and not 'N/A'                             *)
ProcessorReview(review, sv, bh) ==
    [review EXCEPT !.name = clean_reviewer_name(review.name, sv, bh),
                   !.text = IF review.text # <<>> /\ review.text # NA
                              THEN process_review_text(review.text, sv, bh)
                              ELSE review.text]

InitPipeline ==
    /\ pc = "pre"
    /\ Idle
    /\ TextFresh
    /\ behaviour \in PipelineBehaviours
    /\ \E n \in 0..MaxRecords :
         /\ heap \in [1..n -> PipeRecords]
         /\ given = [i \in 1..n |-> i]
    /\ processed_reviews = <<>>
    /\ all_reviews = <<>>

(* scrape_reviews: if reviews: reviews = self.preprocess_reviews(reviews); *)
(* the availability flags are read here and drawn here                     *)
PreprocessCall ==
    /\ pc = "pre"
    /\ \E sv \in Services :
         /\ services' = sv
         /\ IF given = <<>>
              THEN /\ processed_reviews' = given
                   /\ UNCHANGED heap
              ELSE /\ heap' = HeapAfter(given,
                               [i \in 1..Len(given) |->
                                   PreprocessReview(heap[given[i]], sv, behaviour)])
                   /\ processed_reviews' = ListAfter(given)
    /\ pc' = "post"
    /\ UNCHANGED <<driver, scrollVars, milestones, result, extractVars,
                   expandVars, input_text, output_text, failed_stage,
                   again_text, again_stage, candidate, label, display_label,
                   raised>>
    /\ UNCHANGED runVars
    /\ UNCHANGED <<behaviour, given, all_reviews>>

(* process_reviews_function(reviews): ReviewTextProcessor().preprocess_reviews *)
(* on the list scrape_reviews returned; a caller does so for a list that   *)
(* is not empty                                                            *)
ProcessAgain ==
    /\ pc = "post"
    /\ IF processed_reviews = <<>>
         THEN /\ all_reviews' = processed_reviews
              /\ UNCHANGED heap
         ELSE /\ heap' = HeapAfter(processed_reviews,
                          [i \in 1..Len(processed_reviews) |->
                              ProcessorReview(heap[processed_reviews[i]],
                                              services, behaviour)])
              /\ all_reviews' = ListAfter(processed_reviews)
    /\ pc' = "final"
    /\ UNCHANGED <<driver, scrollVars, milestones, result, extractVars,
                   expandVars, textVars>>
    /\ UNCHANGED runVars
    /\ UNCHANGED <<behaviour, given, processed_reviews>>

NextPipeline == PreprocessCall \/ ProcessAgain

SpecPipeline == InitPipeline /\ [][NextPipeline]_vars

(* The dictionaries of a list *)
RecordsOf(reviews_list) == [i \in 1..Len(reviews_list) |-> heap[reviews_list[i]]]

(* C27: a call of preprocess_reviews (of the scraper or of the text       *)
(* processor) changes no dictionary that existed before it and not the    *)
(* list it was given; the list it returns has the same length, and its    *)
(* i-th record has the date and the rating of the i-th record given; a    *)
(* name or a text 'N/A' is 'N/A' in the record returned.                  *)
C27_NoEffectBeyondReturn ==
    [][(pc \in {"pre", "post"}) =>
          /\ \A k \in DOMAIN heap : heap'[k] = heap[k]
          /\ given' = given
          /\ pc = "post" => processed_reviews' = processed_reviews
          /\ pc = "pre" => Len(processed_reviews') = Len(given)
          /\ pc = "post" => Len(all_reviews') = Len(processed_reviews)
          /\ \A i \in 1..Len(given) :
                 LET old == heap[(IF pc = "pre" THEN given ELSE processed_reviews)[i]]
                     new == heap'[(IF pc = "pre" THEN processed_reviews'
                                               ELSE all_reviews')[i]]
                 IN  /\ new.date = old.date
                     /\ new.rating = old.rating
                     /\ old.name = NA => new.name = NA
                     /\ old.text = NA => new.text = NA]_vars

(* Two reviews were given: the first came out with another name and       *)
(* another text, and is in the list given as it was; the second has no    *)
(* name and no text, and came out so                                      *)
C27_Witness ==
    /\ pc = "post"
    /\ Len(given) = 2
    /\ Len(processed_reviews) = 2
    /\ heap[given[1]].name = NameAB
    /\ heap[given[1]].text = DiacText
    /\ heap[processed_reviews[1]].name # NameAB
    /\ heap[processed_reviews[1]].text = DiacTextNormalized
    /\ heap[given[2]].name = NA
    /\ heap[given[2]].text = NA
    /\ heap[processed_reviews[2]] = heap[given[2]]
    /\ processed_reviews[2] # given[2]

(* C28: the second application, by process_reviews_function, leaves every *)
(* record as scrape_reviews returned it.                                  *)
C28_SecondApplicationIsIdentity ==
    pc = "final" => RecordsOf(all_reviews) = RecordsOf(processed_reviews)

-----------------------------------------------------------------------------
(* The loading loop *)

LoopPcs == {"loop", "expand", "count", "check", "compare", "m1", "m2", "m3",
            "stagnate", "scroll", "advance"}

(* Steps of a pass still ahead of the control thread *)
PassRank ==
    CASE pc = "loop" -> 11
      [] pc = "expand" -> 10
      [] pc = "count" -> 9
      [] pc = "check" -> 8
      [] pc = "compare" -> 7
      [] pc = "m1" -> 6
      [] pc = "m2" -> 5
      [] pc = "m3" -> 4
      [] pc = "stagnate" -> 3
      [] pc = "scroll" -> 2
      [] pc = "advance" -> 1
      [] OTHER -> 0

(* Steps the loop can still take: 12 for every pass left, and the rank *)
LoopVariant ==
    IF pc \in LoopPcs THEN (15 - attempt) * 12 + PassRank ELSE 0

(* C1: whatever the target, the counts observed and the outcomes of       *)
(* expansion and scrolling, scroll_reviews begins at most 15 passes, and  *)
(* every step inside the loop brings its exit nearer: the loop is left    *)
(* after at most 15 passes.                                               *)
C1_LoopBounded ==
    /\ [](passes <= 15 /\ attempt <= 15 /\ LoopVariant >= 0)
    /\ [][(pc \in LoopPcs) => (LoopVariant' < LoopVariant)]_vars

(* The loop was left through the cap, after 15 passes, target not reached *)
C1_Witness ==
    /\ pc = "final_expand"
    /\ outcome = "cap"
    /\ passes = 15
    /\ current_count < target_count

(* C2, as stated: if no pass counts more reviews than the pass before it  *)
(* and the target is not reached, the loop is left through the            *)
(* stagnation rule, not through the cap.                                  *)
C2_NoIncreaseStagnates ==
    (pc = "final_expand" /\ ~increased /\ outcome # "target")
        => outcome = "stagnation"

(* C2, amended: if every pass counts the same number of reviews, below    *)
(* the target, the loop is left through the stagnation rule, with a       *)
(* streak of 6, on pass 6 when that number is 0 and on pass 7 otherwise,  *)
(* and never through the cap.                                             *)
C2_ConstantStagnates ==
    ~changed =>
        /\ outcome # "cap"
        /\ passes <= 7
        /\ pc = "final_expand" => outcome \in {"target", "stagnation"}
        /\ outcome = "stagnation" =>
               /\ no_change_count = 6
               /\ passes = IF current_count = 0 THEN 6 ELSE 7

(* Seven passes counted the same non-zero number, and the loop stopped *)
C2_Witness ==
    /\ pc = "final_expand"
    /\ outcome = "stagnation"
    /\ ~changed
    /\ current_count > 0
    /\ passes = 7

(* C3: no failure of a document call made during scroll_reviews leaves    *)
(* scroll_reviews.                                                        *)
C3_NoFailureEscapes == outcome # "raised"

(* C4: on a pass whose count is at least the target the loop is left on   *)
(* that pass as success, with the streak, last_count and attempt          *)
(* untouched and nothing done after the count; no later step of a pass    *)
(* runs with the target reached; and the cap is taken only with the       *)
(* target not reached.                                                    *)
C4_TargetFirst ==
    /\ [][(pc = "check" /\ current_count >= target_count) =>
             /\ pc' = "final_expand"
             /\ outcome' = "target"
             /\ UNCHANGED <<no_change_count, last_count, attempt, passTrace>>]_vars
    /\ [](outcome = "target" => passTrace = <<"expand", "count">>)
    /\ [](pc \in {"compare", "m1", "m2", "m3", "stagnate", "scroll", "advance"}
             => current_count < target_count)
    /\ [](outcome = "cap" => current_count < target_count)

(* The target was reached on the last pass the cap allows, with the       *)
(* escalation streak running                                              *)
C4_Witness ==
    /\ pc = "final_expand"
    /\ outcome = "target"
    /\ attempt = 14
    /\ no_change_count >= 3

IsPrefix(p, q) == Len(p) <= Len(q) /\ SubSeq(q, 1, Len(p)) = p

(* C5: every pass makes one expansion, the loop is followed by exactly    *)
(* one more on each of its exits, extraction starts only after that final *)
(* expansion and normalization only after extraction.                     *)
C5_FinalExpansionFirst ==
    /\ IsPrefix(milestones, <<"final_expand", "extract", "preprocess">>)
    /\ pc \in (LoopPcs \ {"loop", "expand"}) => expansions = passes
    /\ pc = "final_expand" =>
           /\ outcome \in {"target", "cap", "stagnation"}
           /\ expansions = passes
           /\ milestones = <<>>
    /\ pc = "final_count" =>
           /\ expansions = passes + 1
           /\ milestones = <<"final_expand">>
    /\ pc = "extract_find" => milestones = <<"final_expand">>
    /\ pc = "extract_node" => milestones = <<"final_expand", "extract">>
    /\ pc = "preprocess" => milestones = <<"final_expand", "extract">>

(* A run went through the final expansion, extraction and normalization *)
C5_Witness ==
    /\ pc = "done"
    /\ result = "list"
    /\ milestones = <<"final_expand", "extract", "preprocess">>

-----------------------------------------------------------------------------
(* The extractor *)

Triple(r) == <<r.name, r.date, r.rating>>

ExtractPcs == {"extract_node", "preprocess"}

(* C8: no two records of the output of extract_reviews have the same      *)
(* name, date and rating.                                                 *)
C8_UniqueTriples ==
    pc \in ExtractPcs =>
        \A i, j \in 1..Len(reviews) :
            i # j => Triple(reviews[i]) # Triple(reviews[j])

(* Two containers with the same name, date and rating were visited, and   *)
(* the output holds one record                                            *)
C8_Witness ==
    /\ pc = "extract_node"
    /\ Len(observed) = 2
    /\ Triple(observed[1]) = Triple(observed[2])
    /\ observed[1].text # observed[2].text
    /\ Len(reviews) = 1

(* C9: throughout an extraction run the output has at most target_count   *)
(* records and at most as many as containers visited, and no record has   *)
(* the name 'N/A'.                                                        *)
C9_OutputBounded ==
    pc \in ExtractPcs =>
        /\ Len(reviews) <= target_count
        /\ Len(reviews) <= idx
        /\ idx <= containers
        /\ \A i \in 1..Len(reviews) : reviews[i].name # NA

(* A container without a name was passed over and the next one filled    *)
(* the output                                                             *)
C9_Witness ==
    /\ pc = "extract_node"
    /\ target_count = 1
    /\ Len(observed) = 2
    /\ observed[1].name = NA
    /\ Len(reviews) = 1
    /\ idx = 2

-----------------------------------------------------------------------------
(* scrape_reviews as a whole *)

(* C19: when the wait for the review nodes times out, scrape_reviews      *)
(* returns the empty list at once: sort_by_newest is not called, no pass  *)
(* of the loading loop is begun, nothing is expanded, extracted or        *)
(* normalized.                                                            *)
C19_NoReviewsNoSteps ==
    waited = "timeout" =>
        /\ pc = "done"
        /\ result = "empty"
        /\ ~sort_called
        /\ passes = 0
        /\ attempt = 0
        /\ expansions = 0
        /\ attemptsMade = 0
        /\ milestones = <<>>
        /\ idx = 0
        /\ reviews = <<>>
        /\ outcome = "running"

(* The wait timed out and the empty list was returned *)
C19_Witness ==
    /\ waited = "timeout"
    /\ pc = "done"
    /\ result = "empty"

(* The list scrape_reviews returned *)
Returned == IF result = "list" THEN reviews ELSE <<>>

Fields == {"name", "date", "rating", "text"}

(* C20: whatever fails, scrape_reviews ends by returning a list, never by *)
(* an exception; every record of the list has the four fields name, date, *)
(* rating and text, and the list is no longer than requested.             *)
C20_AlwaysAList ==
    /\ result \in {"none", "empty", "list"}
    /\ pc = "done" =>
           /\ result \in {"empty", "list"}
           /\ Len(Returned) <= target_count
           /\ \A i \in 1..Len(Returned) :
                  /\ DOMAIN Returned[i] = Fields
                  /\ \A f \in Fields : Returned[i][f] \in Seq(Nat)
    /\ pc # "done" => result = "none"

(* The count of the review nodes raised during loading, and the empty     *)
(* list was returned                                                      *)
C20_Witness ==
    /\ pc = "done"
    /\ outcome = "raised"
    /\ waited = "present"
    /\ result = "empty"

-----------------------------------------------------------------------------
(* The escalation of scroll_reviews *)

(* The steps of a pass that went through the whole escalation *)
FullEscalation == <<"expand", "count", "compare", "m1", "m2", "m3">>

(* C21: on every pass whose count is unchanged for at least three passes  *)
(* in a row, the three alternate scroll methods are all attempted, in the *)
(* order container, whole document, secondary containers: when the pass   *)
(* reaches the stagnation test, it has been through the three of them,    *)
(* whichever of them failed.                                              *)
C21_AllMethodsAttempted ==
    pc = "stagnate" => passTrace = FullEscalation

-----------------------------------------------------------------------------
(* The blocked click of click_more_buttons *)

(* C22: a control whose click is intercepted and whose ActionChains click *)
(* fails too is the only control given up: the loop still comes to every  *)
(* other element the selector found (none of them being stale).           *)
C22_BlockedGivesUpOneControl ==
    (/\ \E i \in 1..Len(buttons_to_click) : buttons_to_click[i] = "blocked"
     /\ \A i \in 1..Len(buttons_to_click) : buttons_to_click[i] # "stale")
        => examined = Len(buttons_to_click)

-----------------------------------------------------------------------------
(* extract_reviews against the filter over the triples *)

(* The records of nodes, in order, whose name is not 'N/A' and whose name, *)
(* date and rating differ from those of every record taken before, up to  *)
(* max_reviews of them; acc holds the records taken so far.               *)
RECURSIVE FilterByTriple(_, _, _)
FilterByTriple(nodes, acc, max_reviews) ==
    IF nodes = <<>> \/ Len(acc) >= max_reviews THEN acc
    ELSE LET r == Head(nodes)
             new == \A i \in 1..Len(acc) : Triple(acc[i]) # Triple(r)
         IN  FilterByTriple(Tail(nodes),
                            IF r.name # NA /\ new THEN Append(acc, r) ELSE acc,
                            max_reviews)

(* C23: the output of extract_reviews is the filter over the containers   *)
(* visited, in document order: a container is appended exactly when its   *)
(* name is not 'N/A' and its name, date and rating differ from those of   *)
(* every record appended before, and no more than max_reviews are taken.  *)
C23_OutputIsFilter ==
    pc = "extract_node" =>
        reviews = FilterByTriple(observed, <<>>, target_count)

-----------------------------------------------------------------------------
(* The handles of the elements across the clicks *)

(* C26: no element handle got before a click is read or acted on after    *)
(* that click: every element of buttons_to_click the loop comes to        *)
(* follows no element of the same find that was clicked.                  *)
C26_NoHandleAcrossClick ==
    \A i \in 1..examined :
        \A j \in 1..(i - 1) : buttons_to_click[j] \notin {"clicked", "retried"}

-----------------------------------------------------------------------------
(* The counters of scroll_reviews *)

(* The pass in progress has made its comparison, or no pass is in progress *)
Compared ==
    pc \in {"m1", "m2", "m3", "stagnate", "scroll", "advance", "loop", "expand",
            "count"}

AfterLoop == pc \in {"final_expand", "final_count"}

(* C29, as stated: attempt is within 0..15 and no_change_count within     *)
(* 0..6, and no_change_count is the number of the latest passes in a row  *)
(* whose count was that of the pass before (0 before the first pass),     *)
(* during the loop and after it.                                          *)
C29_StreakCountsPasses ==
    /\ attempt \in 0..15
    /\ no_change_count \in 0..6
    /\ (Compared \/ AfterLoop) => no_change_count = same_run

(* C29, amended: the same, but for the pass that reaches the target,      *)
(* which leaves the loop before the comparison and leaves no_change_count *)
(* as it was.                                                             *)
C29_StreakCountsComparedPasses ==
    /\ attempt \in 0..15
    /\ no_change_count \in 0..6
    /\ (Compared \/ (AfterLoop /\ outcome # "target"))
           => no_change_count = same_run

(* A pass after the first counted fewer reviews than the pass before, and *)
(* the streak is 0                                                        *)
C29_Witness ==
    /\ pc = "scroll"
    /\ attempt >= 2
    /\ current_count < last_count
    /\ no_change_count = 0
    /\ same_run = 0

=============================================================================
